---- MODULE Spec2Model ----
(***************************************************************************)
(* RetailNexus incremental pipeline: the cursor-tracked micro-batch        *)
(* consumer (stream_processor.py), the SCD Type 2 merge of dim_users       *)
(* (scd_logic.py), the star schema builder (star_schema.py) and the table  *)
(* map cache of the query layer (kpi_queries.py, api/main.py).             *)
(***************************************************************************)
EXTENDS Integers, Sequences, FiniteSets, TLC

(***************************************************************************)
(* Bounds of the model.                                                    *)
(***************************************************************************)
\* lines the producers append to events.jsonl
MaxLog == 2
\* line items of one order event
MaxItems == 1
\* raw-layer writes that raise
MaxFail == 1
\* last calendar day (date.today() and signup_date range over 1..MaxDay)
MaxDay == 2
\* runs of apply_scd_type_2
MaxMerges == 3
\* runs of the transformation pipeline (cleaner, SCD merge, star schema)
MaxRuns == 2
\* DELETE /api/data/reset requests
MaxResets == 1
\* rows in the raw CSV files of one entity
MaxRaw == 2
\* runs of a cleaner on the same raw files
MaxCleanRuns == 2
\* greatest number in a cell of an amount column
MaxAmount == 2
\* calls of run_pipeline
MaxPipelines == 2
\* exceptions raised inside cleaners, the SCD step and builders
MaxRaises == 1
\* greatest max_attempts of retry_with_backoff
MaxAttempts == 3
\* entries of the directory discover_tables is called on
MaxEntries == 3
\* successful POST /api/stream/start requests
MaxStarts == 2

VARIABLES
    \* ---- streaming consumer (stream_processor.py) ----
    log,             \* events.jsonl: the sequence of appended events
    marker,          \* last_processed.txt: NoFile, or <<text>> holding the text
    rawFiles,        \* data/raw: set of [entity, ts, rows] artifacts
    pc,              \* position of the stream processor process
    events,          \* local `events` of process_micro_batch
    last_processed,  \* local `last_processed` of read_new_events
    now,             \* datetime.now() at second resolution
    fails,           \* number of raw-layer writes that raised so far
    \* ---- SCD Type 2 merge (scd_logic.py) ----
    silver_users,    \* data/silver/users.parquet: NoTable or <<set of rows>>
    dim_users,       \* data/gold/dim_users.parquet: NoTable or <<set of rows>>
    today,           \* date.today()
    merges,          \* number of apply_scd_type_2 runs so far
    sk_issued,       \* surrogate keys given to versions by earlier runs
    sk_fresh,        \* surrogate keys given to versions by the latest run
    \* ---- star schema builder (star_schema.py) ----
    silver_txn,      \* data/silver/transactions.parquet
    silver_products, \* data/silver/products.parquet
    dim_products,    \* data/gold/dim_products.parquet
    dim_stores,      \* data/gold/dim_stores.parquet
    fact_txn,        \* data/gold/fact_transactions.parquet
    fact_temp,       \* DuckDB table fact_transactions_temp
    tmp_file,        \* data/gold/fact_transactions.parquet.tmp
    stage,           \* position of the pipeline run
    runs,            \* number of pipeline runs started so far
    \* ---- table map cache of the query layer (kpi_queries.py) ----
    table_cache,     \* kpi_queries._table_cache, one module global per process
    runner,          \* the process a pipeline run is active in, or "none"
    q_result,        \* the map returned to a query request in flight
    \* ---- cursor marker writers (stream_processor.py, api/main.py) ----
    total_lines,     \* local `total_lines` of process_micro_batch
    resets,          \* number of DELETE /api/data/reset requests served so far
    \* ---- partitioned fact tables and publish steps (star_schema.py) ----
    silver_dir,      \* data/silver/inventory.parquet and shipments.parquet
    fact_dir,        \* data/gold/fact_inventory.parquet and fact_shipments.parquet
    dir_temp,        \* DuckDB tables fact_inventory_temp and fact_shipments_temp
    half_written,    \* published paths that hold a partially written table
    building,        \* the part of the run after build_fact_transactions
    step,            \* position inside build_fact_inventory / build_fact_shipments
    at_start,        \* which tables were published when the run started
    \* ---- cleaners (cleaner.py) ----
    raw_in,          \* the raw CSV rows of one entity in data/raw
    cleaned,         \* the tables successive runs of its cleaner wrote
    \* ---- amount of a transaction (cleaner.py) ----
    txn_in,          \* the columns of transactions_*.csv and one raw row, or <<>>
    amt_out,         \* <<[amt, kept]>> once clean_transactions has run
    \* ---- in-process pipeline run (pipeline.py, cleaner.py, star_schema.py) ----
    raw_present,     \* the entities that have raw CSV files in data/raw
    silver_ver,      \* per entity: 0 no validated table, else the run that wrote it
    gold_ver,        \* per gold table: 0 not published, else the run that wrote it
    p_stage,         \* position of run_pipeline: idle, clean, scd, star, returned
    p_idx,           \* index of the cleaner / builder the loop is at
    clean_results,   \* `results` of clean_all
    scd_result,      \* outcome of the SCD step of run_pipeline
    build_results,   \* `results` of build_star_schema
    silver0,         \* silver_ver when the run started
    gold0,           \* gold_ver when the run started
    p_runs,          \* number of run_pipeline calls so far
    p_raises,        \* number of exceptions raised inside steps so far
    \* ---- retry_with_backoff (retry_utils.py) ----
    r_args,          \* max_attempts, initial_delay, backoff_factor of the decorator
    r_pc,            \* position of wrapper: idle, calling, returned, raised
    attempt,         \* loop variable `attempt` of wrapper
    delay,           \* local `delay` of wrapper
    outcomes,        \* what each call of the wrapped function did, in order
    slept,           \* the [base, jitter] of each time.sleep of wrapper, in order
    \* ---- discover_tables on a directory (schema_inspector.py) ----
    root_dir,        \* <<>>: the root does not exist; <<entries>>: its iterdir()
    called,          \* discover_tables has been called on root_dir
    tables,          \* the map discover_tables returned
    \* ---- processes that run the pipeline (api/main.py, stream_processor.py) ----
    stream_state,    \* stream_state of the API process: status, generator_pid, processor_pid
    alive,           \* pids of the live stream generator and stream processor processes
    processors,      \* pids given to stream processor processes so far
    starts,          \* number of successful POST /api/stream/start so far
    active,          \* who is inside a pipeline run: ApiPid or the pid of a processor
    pipelines        \* number of pipeline runs started so far

streamVars == <<log, marker, rawFiles, pc, events, last_processed, now, fails>>

scdVars == <<silver_users, dim_users, today, merges, sk_issued, sk_fresh>>

starVars == <<silver_txn, silver_products, dim_products, dim_stores, fact_txn,
              fact_temp, tmp_file, stage, runs>>

cacheVars == <<table_cache, runner, q_result>>

cursorVars == <<total_lines, resets>>

pubVars == <<silver_dir, fact_dir, dir_temp, half_written, building, step, at_start>>

cleanVars == <<raw_in, cleaned>>

amtVars == <<txn_in, amt_out>>

pipeVars == <<raw_present, silver_ver, gold_ver, p_stage, p_idx, clean_results, scd_result, build_results, silver0, gold0, p_runs, p_raises>>

retryVars == <<r_args, r_pc, attempt, delay, outcomes, slept>>

discVars == <<root_dir, called, tables>>

procVars == <<stream_state, alive, processors, starts, active, pipelines>>

vars == <<streamVars, scdVars, starVars, cacheVars, cursorVars, pubVars, cleanVars, amtVars, pipeVars, retryVars, discVars, procVars>>

\* the marker file does not exist
NoFile == <<>>

\* a parquet file that does not exist; an existing one is <<rows>>
NoTable == <<>>

(***************************************************************************)
(* Events and the raw rows derived from them.                              *)
(***************************************************************************)
EventTypes ==
    {"order_created", "user_update", "product_update",
     "inventory_update", "shipment_update"}

\* entity prefix of the raw artifact each event type is routed to
EntityOf(t) ==
    CASE t = "order_created"    -> "transactions"
      [] t = "user_update"      -> "users"
      [] t = "product_update"   -> "products"
      [] t = "inventory_update" -> "inventory"
      [] t = "shipment_update"  -> "shipments"

\* order in which write_events_to_csv writes the artifacts of a batch
WriteOrder ==
    <<"order_created", "user_update", "product_update",
      "inventory_update", "shipment_update">>

\* the events a producer can emit as line number `id` of the log;
\* `id` stands for the payload (transaction_id, user_id, ...) of the event
ProducedEvents(id) ==
    {[event_type |-> "order_created", id |-> id, products |-> n] : n \in 0..MaxItems}
    \cup {[event_type |-> t, id |-> id, products |-> 0] :
            t \in EventTypes \ {"order_created"}}

\* rows one event contributes to its raw artifact: an order is expanded to
\* one row per line item, every other event gives one row
RowsOfEvent(e) ==
    IF e.event_type = "order_created"
    THEN [j \in 1..e.products |-> [key |-> e.id, item |-> j]]
    ELSE <<[key |-> e.id, item |-> 0]>>

RECURSIVE RowsOfEvents(_)
RowsOfEvents(es) ==
    IF es = <<>> THEN <<>>
    ELSE RowsOfEvent(Head(es)) \o RowsOfEvents(Tail(es))

\* [e for e in events if e.get("event_type") == t]
OfType(es, t) == SelectSeq(es, LAMBDA e : e.event_type = t)

\* does write_events_to_csv write an artifact for type t: `if orders:` and
\* `if txn_rows:` for orders, `if users:` ... for the others
WritesArtifact(es, t) == RowsOfEvents(OfType(es, t)) # <<>>

\* the artifact written for type t, named <entity>_stream_<timestamp>.csv
Artifact(es, t, ts) ==
    [entity |-> EntityOf(t), ts |-> ts, rows |-> RowsOfEvents(OfType(es, t))]

\* _write_csv: open(filepath, 'w') replaces a file of the same name
WriteCsv(files, f) ==
    {g \in files : ~(g.entity = f.entity /\ g.ts = f.ts)} \cup {f}

\* the raw directory after the first k artifacts (in WriteOrder) were written
RECURSIVE WriteFirst(_, _, _, _)
WriteFirst(files, es, ts, k) ==
    IF k = 0 THEN files
    ELSE LET prev == WriteFirst(files, es, ts, k - 1)
             t == WriteOrder[k]
         IN IF WritesArtifact(es, t) THEN WriteCsv(prev, Artifact(es, t, ts))
            ELSE prev

\* the text of a file that open(..., 'w') has truncated and nothing has
\* been flushed to yet
EmptyText == <<>>

\* str(line_num): the decimal digits of a natural number
RECURSIVE Str(_)
Str(n) == IF n < 10 THEN <<n>> ELSE Append(Str(n \div 10), n % 10)

\* int(f.read().strip()) of a text of decimal digits; int('') raises
\* ValueError
IntRaises(text) == text = EmptyText

RECURSIVE ParseInt(_)
ParseInt(text) ==
    IF Len(text) = 1 THEN text[1]
    ELSE 10 * ParseInt(SubSeq(text, 1, Len(text) - 1)) + text[Len(text)]

\* get_last_processed_line
GetLastProcessedLine == IF marker = NoFile THEN 0 ELSE ParseInt(marker[1])

\* get_last_processed_line raises
MarkerUnreadable == marker # NoFile /\ IntRaises(marker[1])

\* the lines of the log with offset greater than c (every line a producer
\* writes is json.dumps output, so every line parses)
EventsAfter(c) == SubSeq(log, c + 1, Len(log))

InitStream ==
    /\ log = <<>>
    /\ marker = NoFile
    /\ rawFiles = {}
    /\ pc = "idle"
    /\ events = <<>>
    /\ last_processed = 0
    /\ now = 1
    /\ fails = 0

InitScd ==
    /\ silver_users = NoTable
    /\ dim_users = NoTable
    /\ today = 1
    /\ merges = 0
    /\ sk_issued = {}
    /\ sk_fresh = {}

InitStar ==
    /\ silver_txn = NoTable
    /\ silver_products = NoTable
    /\ dim_products = NoTable
    /\ dim_stores = NoTable
    /\ fact_txn = NoTable
    /\ fact_temp = NoTable
    /\ tmp_file = NoTable
    /\ stage = "idle"
    /\ runs = 0

\* _table_cache = None in a process that has just imported kpi_queries
NoCache == <<>>

\* no query request is in flight
NoResult == <<>>

\* the API server and the stream processor it starts with subprocess.Popen
Processes == {"api", "processor"}

InitCache ==
    /\ table_cache = [p \in Processes |-> NoCache]
    /\ runner = "none"
    /\ q_result = NoResult

InitCursor ==
    /\ total_lines = 0
    /\ resets = 0

\* the fact tables that are published as partitioned directories
DirTables == {"fact_inventory", "fact_shipments"}

\* the single-file tables whose builders this model has
FileTables == {"dim_users", "dim_products", "dim_stores", "fact_transactions"}

\* no raw artifact, no cleaner run
InitClean ==
    /\ raw_in = [entity |-> "none", rows |-> {}]
    /\ cleaned = <<>>

\* no transactions file yet
InitAmount ==
    /\ txn_in = <<>>
    /\ amt_out = <<>>

\* the cleaners of clean_all, in the order of its loop
CleanerList == <<"transactions", "users", "products", "inventory", "shipments">>

\* the builders of build_star_schema, in the order of its loop
BuilderList == <<"dim_products", "dim_stores", "dim_dates",
                 "fact_transactions", "fact_inventory", "fact_shipments">>

\* a sequence as a set
Range(seq) == {seq[i] : i \in 1..Len(seq)}

\* empty data directories, no run yet
InitPipeline ==
    /\ raw_present = {}
    /\ silver_ver = [e \in Range(CleanerList) |-> 0]
    /\ gold_ver = [t \in Range(BuilderList) \cup {"dim_users"} |-> 0]
    /\ p_stage = "idle"
    /\ p_idx = 1
    /\ clean_results = [e \in Range(CleanerList) |-> "unset"]
    /\ scd_result = "unset"
    /\ build_results = [t \in Range(BuilderList) |-> "unset"]
    /\ silver0 = [e \in Range(CleanerList) |-> 0]
    /\ gold0 = [t \in Range(BuilderList) \cup {"dim_users"} |-> 0]
    /\ p_runs = 0
    /\ p_raises = 0

\* the decorated function has not been called
InitRetry ==
    /\ r_args = [max_attempts |-> 1, initial_delay |-> 10, backoff_factor |-> 1]
    /\ r_pc = "idle"
    /\ attempt = 0
    /\ delay = 0
    /\ outcomes = <<>>
    /\ slept = <<>>

\* discover_tables has not been called
InitDiscover ==
    /\ root_dir = <<>>
    /\ called = FALSE
    /\ tables = {}

\* no pid: stream_state["generator_pid"] is None
NoPid == 0

\* the API process, different from every stream process
ApiPid == -1

\* the API process has started, the stream is stopped, no pipeline runs
InitProcesses ==
    /\ stream_state = [status |-> "stopped", generator_pid |-> NoPid,
                       processor_pid |-> NoPid]
    /\ alive = {}
    /\ processors = {}
    /\ starts = 0
    /\ active = {}
    /\ pipelines = 0

InitPublish ==
    /\ silver_dir = [t \in DirTables |-> NoTable]
    /\ fact_dir = [t \in DirTables |-> NoTable]
    /\ dir_temp = [t \in DirTables |-> NoTable]
    /\ half_written = {}
    /\ building = "none"
    /\ step = "join"
    /\ at_start = {}

Init ==
    /\ InitStream /\ InitScd /\ InitStar /\ InitCache /\ InitCursor
    /\ InitPublish /\ InitClean /\ InitAmount /\ InitPipeline /\ InitRetry /\ InitDiscover /\ InitProcesses

(***************************************************************************)
(* Producer: append_event                                                  *)
(***************************************************************************)
AppendEvent ==
    /\ Len(log) < MaxLog
    /\ \E e \in ProducedEvents(Len(log) + 1) : log' = Append(log, e)
    /\ UNCHANGED <<marker, rawFiles, pc, events, last_processed, now, fails>>

(***************************************************************************)
(* process_micro_batch, one action per step between which a producer can   *)
(* append.                                                                 *)
(***************************************************************************)
\* events = read_new_events(); if not events: return 0 (then the loop sleeps)
ReadNewEvents ==
    /\ pc = "idle"
    /\ ~MarkerUnreadable
    /\ last_processed' = GetLastProcessedLine
    /\ events' = EventsAfter(GetLastProcessedLine)
    /\ pc' = IF EventsAfter(GetLastProcessedLine) = <<>> THEN "idle" ELSE "write"
    /\ UNCHANGED <<log, marker, rawFiles, now, fails>>

\* write_events_to_csv(events) returns normally
WriteEventsToCsv ==
    /\ pc = "write"
    /\ rawFiles' = WriteFirst(rawFiles, events, now, Len(WriteOrder))
    /\ pc' = "mark"
    /\ UNCHANGED <<log, marker, events, last_processed, now, fails>>

\* mutant of WriteEventsFails: the marker is updated before the raw-layer
\* write, so a write that raises leaves the cursor advanced
WriteEventsFails_MarkerFirst ==
    /\ pc = "write"
    /\ fails < MaxFail
    /\ marker' = <<Str(Len(log))>>
    /\ fails' = fails + 1
    /\ pc' = "crashed"
    /\ UNCHANGED <<log, rawFiles, events, last_processed, now>>

\* a _write_csv call raises: the artifacts before it are on disk, the failing
\* one is absent or left empty by open(..., 'w'); the exception leaves
\* process_micro_batch and run_stream_processor (which catches only
\* KeyboardInterrupt)
WriteEventsFails ==
    /\ pc = "write"
    /\ fails < MaxFail
    /\ \E k \in 1..Len(WriteOrder) :
          /\ WritesArtifact(events, WriteOrder[k])
          /\ \E created \in BOOLEAN :
                rawFiles' =
                    IF created
                    THEN WriteCsv(WriteFirst(rawFiles, events, now, k - 1),
                                  [entity |-> EntityOf(WriteOrder[k]), ts |-> now,
                                   rows |-> <<>>])
                    ELSE WriteFirst(rawFiles, events, now, k - 1)
    /\ fails' = fails + 1
    /\ pc' = "crashed"
    /\ UNCHANGED <<log, marker, events, last_processed, now>>

\* total_lines = sum(1 for _ in f); set_last_processed_line(total_lines)
UpdateMarker ==
    /\ pc = "mark"
    /\ marker' = <<Str(Len(log))>>
    /\ pc' = "pipeline"
    /\ UNCHANGED <<log, rawFiles, events, last_processed, now, fails>>

\* trigger_incremental_pipeline(); return len(events); time.sleep(batch_interval)
FinishCycle ==
    /\ pc = "pipeline"
    /\ pc' = "idle"
    /\ now' = now + 1
    /\ events' = <<>>
    /\ last_processed' = 0
    /\ UNCHANGED <<log, marker, rawFiles, fails>>

\* the processor process is started again after it died
RestartProcessor ==
    /\ pc = "crashed"
    /\ pc' = "idle"
    /\ now' = now + 1
    /\ events' = <<>>
    /\ last_processed' = 0
    /\ UNCHANGED <<log, marker, rawFiles, fails>>

NextStream ==
    \/ AppendEvent /\ UNCHANGED <<scdVars, starVars, cacheVars, cursorVars, pubVars, cleanVars, amtVars, pipeVars, retryVars, discVars, procVars>>
    \/ ReadNewEvents /\ UNCHANGED <<scdVars, starVars, cacheVars, cursorVars, pubVars, cleanVars, amtVars, pipeVars, retryVars, discVars, procVars>>
    \/ WriteEventsToCsv /\ UNCHANGED <<scdVars, starVars, cacheVars, cursorVars, pubVars, cleanVars, amtVars, pipeVars, retryVars, discVars, procVars>>
    \/ WriteEventsFails /\ UNCHANGED <<scdVars, starVars, cacheVars, cursorVars, pubVars, cleanVars, amtVars, pipeVars, retryVars, discVars, procVars>>
    \/ UpdateMarker /\ UNCHANGED <<scdVars, starVars, cacheVars, cursorVars, pubVars, cleanVars, amtVars, pipeVars, retryVars, discVars, procVars>>
    \/ FinishCycle /\ UNCHANGED <<scdVars, starVars, cacheVars, cursorVars, pubVars, cleanVars, amtVars, pipeVars, retryVars, discVars, procVars>>
    \/ RestartProcessor /\ UNCHANGED <<scdVars, starVars, cacheVars, cursorVars, pubVars, cleanVars, amtVars, pipeVars, retryVars, discVars, procVars>>

SpecStream == Init /\ [][NextStream]_vars

(***************************************************************************)
(* SCD Type 2 merge of dim_users: apply_scd_type_2                         *)
(***************************************************************************)
\* NULL::DATE; the calendar days are 1..MaxDay
NullDate == 0

\* user ids in ORDER BY user_id order (1 for USR_0001, 2 for USR_0002)
Users == {1, 2}
Cities == {"Austin", "Dallas"}
\* `name` stands for the two untracked columns name and email
Names == {"n1", "n2"}

\* the attribute values the incoming rows of user u range over: user 1 varies
\* in name and city, user 2 in city and signup_date (NULL, or the second day)
UserAttrs(u) ==
    IF u = 1
    THEN [name : Names, city : Cities, signup_date : {1}]
    ELSE [name : {"n1"}, city : Cities, signup_date : {NullDate, 2}]

\* the tables clean_users can write: DISTINCT ON (user_id), user_id IS NOT
\* NULL, COALESCE(city, 'Unknown'), signup_date possibly NULL
ValidatedUserTables ==
    UNION {{{[user_id |-> u, name |-> f[u].name, city |-> f[u].city,
              signup_date |-> f[u].signup_date] : u \in S}
            : f \in {g \in [S -> UNION {UserAttrs(u) : u \in S}] :
                        \A u \in S : g[u] \in UserAttrs(u)}}
           : S \in SUBSET Users}

\* ROW_NUMBER() OVER (ORDER BY user_id) of the row of user u among the rows
\* of the users in S
RowNumber(u, S) == Cardinality({v \in S : v <= u})

\* COALESCE(MAX(surrogate_key), 0)
MaxSk(existing) ==
    IF existing = {} THEN 0
    ELSE CHOOSE m \in {e.surrogate_key : e \in existing} :
            \A e \in existing : e.surrogate_key <= m

\* first run: every incoming row becomes a current version
InitialLoad(incoming) ==
    {[surrogate_key |-> RowNumber(i.user_id, {j.user_id : j \in incoming}),
      user_id |-> i.user_id, name |-> i.name, city |-> i.city,
      effective_date |-> i.signup_date, end_date |-> NullDate,
      is_current |-> TRUE] : i \in incoming}

\* mutant of Unchanged: the carried-forward row takes the incoming name
Unchanged_IncomingName(existing, incoming) ==
    {[e EXCEPT !.name = (CHOOSE i \in incoming : i.user_id = e.user_id).name]
     : e \in {x \in existing : x.is_current /\
                  \E i \in incoming : i.user_id = x.user_id /\ x.city = i.city}}

\* existing e JOIN incoming i ON e.user_id = i.user_id WHERE e.is_current
\* AND e.city = i.city
Unchanged(existing, incoming) ==
    {e \in existing : e.is_current /\
        \E i \in incoming : i.user_id = e.user_id /\ e.city = i.city}

\* the (existing, incoming) pairs with e.is_current AND e.city != i.city
ChangedPairs(existing, incoming) ==
    {p \in existing \X incoming :
        p[1].user_id = p[2].user_id /\ p[1].is_current /\ p[1].city # p[2].city}

\* mutant of CloseVersion: the old version gets its end_date but keeps
\* is_current = TRUE
CloseVersion_StillCurrent(e, d) == [e EXCEPT !.end_date = d]

\* a closed version: end_date = today, is_current = FALSE, the rest as in e
CloseVersion(e, d) == [e EXCEPT !.end_date = d, !.is_current = FALSE]

Closed(existing, incoming, d) ==
    {CloseVersion(p[1], d) : p \in ChangedPairs(existing, incoming)}

\* mutant of NewVersions: the new version starts at the signup date, as a
\* brand-new user's does
NewVersions_SignupDate(existing, incoming, d) ==
    LET changed == ChangedPairs(existing, incoming)
        ids == {p[2].user_id : p \in changed}
    IN {[surrogate_key |-> MaxSk(existing) + RowNumber(p[2].user_id, ids),
         user_id |-> p[2].user_id, name |-> p[2].name, city |-> p[2].city,
         effective_date |-> p[2].signup_date, end_date |-> NullDate,
         is_current |-> TRUE]
        : p \in changed}

\* new current versions of the changed users, keyed max_sk + ROW_NUMBER()
NewVersions(existing, incoming, d) ==
    LET changed == ChangedPairs(existing, incoming)
        ids == {p[2].user_id : p \in changed}
    IN {[surrogate_key |-> MaxSk(existing) + RowNumber(p[2].user_id, ids),
         user_id |-> p[2].user_id, name |-> p[2].name, city |-> p[2].city,
         effective_date |-> d, end_date |-> NullDate, is_current |-> TRUE]
        : p \in changed}

\* mutant of BrandNew: the WHERE user_id NOT IN (...) filter is missing
BrandNew_AllIncoming(existing, incoming) ==
    LET fresh == incoming
        ids == {i.user_id : i \in fresh}
        base == MaxSk(existing) + Cardinality(ChangedPairs(existing, incoming))
    IN {[surrogate_key |-> base + RowNumber(i.user_id, ids),
         user_id |-> i.user_id, name |-> i.name, city |-> i.city,
         effective_date |-> i.signup_date, end_date |-> NullDate,
         is_current |-> TRUE] : i \in fresh}

\* incoming rows WHERE user_id NOT IN (SELECT user_id FROM existing)
BrandNew(existing, incoming) ==
    LET fresh == {i \in incoming : \A e \in existing : e.user_id # i.user_id}
        ids == {i.user_id : i \in fresh}
        base == MaxSk(existing) + Cardinality(ChangedPairs(existing, incoming))
    IN {[surrogate_key |-> base + RowNumber(i.user_id, ids),
         user_id |-> i.user_id, name |-> i.name, city |-> i.city,
         effective_date |-> i.signup_date, end_date |-> NullDate,
         is_current |-> TRUE] : i \in fresh}

\* SELECT * FROM existing WHERE is_current = FALSE
AlreadyClosed(existing) == {e \in existing : ~e.is_current}

\* the UNION ALL of the five row classes written back to dim_users.parquet
Merge(existing, incoming, d) ==
    Unchanged(existing, incoming)
    \cup Closed(existing, incoming, d)
    \cup NewVersions(existing, incoming, d)
    \cup BrandNew(existing, incoming)
    \cup AlreadyClosed(existing)

\* clean_users writes users.parquet
CleanUsers ==
    /\ merges < MaxMerges
    /\ \E t \in ValidatedUserTables : silver_users' = <<t>>
    /\ silver_users' # silver_users
    /\ UNCHANGED <<dim_users, today, merges, sk_issued, sk_fresh>>

\* apply_scd_type_2, first run: dim_users.parquet does not exist
ApplyScdInitial ==
    /\ merges < MaxMerges
    /\ silver_users # NoTable
    /\ dim_users = NoTable
    /\ dim_users' = <<InitialLoad(silver_users[1])>>
    /\ merges' = merges + 1
    /\ sk_issued' = sk_issued \cup sk_fresh
    /\ sk_fresh' = {r.surrogate_key : r \in InitialLoad(silver_users[1])}
    /\ UNCHANGED <<silver_users, today>>

\* apply_scd_type_2, subsequent runs
ApplyScdMerge ==
    /\ merges < MaxMerges
    /\ silver_users # NoTable
    /\ dim_users # NoTable
    /\ dim_users' = <<Merge(dim_users[1], silver_users[1], today)>>
    /\ merges' = merges + 1
    /\ sk_issued' = sk_issued \cup sk_fresh
    /\ sk_fresh' = {r.surrogate_key :
                        r \in NewVersions(dim_users[1], silver_users[1], today)
                              \cup BrandNew(dim_users[1], silver_users[1])}
    /\ UNCHANGED <<silver_users, today>>

\* the calendar day changes between two pipeline runs
DayPasses ==
    /\ today < MaxDay
    /\ today' = today + 1
    /\ UNCHANGED <<silver_users, dim_users, merges, sk_issued, sk_fresh>>

NextScd ==
    \/ CleanUsers /\ UNCHANGED <<streamVars, starVars, cacheVars, cursorVars, pubVars, cleanVars, amtVars, pipeVars, retryVars, discVars, procVars>>
    \/ ApplyScdInitial /\ UNCHANGED <<streamVars, starVars, cacheVars, cursorVars, pubVars, cleanVars, amtVars, pipeVars, retryVars, discVars, procVars>>
    \/ ApplyScdMerge /\ UNCHANGED <<streamVars, starVars, cacheVars, cursorVars, pubVars, cleanVars, amtVars, pipeVars, retryVars, discVars, procVars>>
    \/ DayPasses /\ UNCHANGED <<streamVars, starVars, cacheVars, cursorVars, pubVars, cleanVars, amtVars, pipeVars, retryVars, discVars, procVars>>

SpecScd == Init /\ [][NextScd]_vars

(***************************************************************************)
(* Star schema builder: build_dim_products, build_dim_stores,              *)
(* build_fact_transactions.  The other builders of build_star_schema       *)
(* (dim_dates, fact_inventory, fact_shipments) write paths that            *)
(* build_fact_transactions does not read.                                  *)
(***************************************************************************)
\* the sentinel surrogate key of COALESCE(<key>, -1)
Sentinel == -1

\* a NULL user_id or store_id of a validated transaction
NullId == 0

Rows(file) == IF file = NoTable THEN {} ELSE file[1]

\* validated transaction rows (transaction_id, product_id unique per row);
\* the pass-through columns timestamp and amount are left out
Txn(tid, uid, pid, sid) ==
    [transaction_id |-> tid, user_id |-> uid, product_id |-> pid, store_id |-> sid]

\* the transactions tables clean_transactions writes as raw artifacts pile
\* up: product 3 and user 3 occur in no dimension, one store_id is NULL
TxnTables ==
    {{},
     {Txn(1, 1, 2, 2)},
     {Txn(1, 1, 2, 2), Txn(2, 2, 1, 1)},
     {Txn(1, 1, 2, 2), Txn(2, 2, 1, 1), Txn(3, 3, 3, NullId), Txn(3, NullId, 1, 2)}}

\* the products tables clean_products writes (DISTINCT ON (product_id))
ProductTables ==
    {{}, {[product_id |-> 2]}, {[product_id |-> 1], [product_id |-> 2]}}

\* the users tables clean_users writes in the pipeline runs
PipelineUserTables ==
    {{[user_id |-> 1, name |-> "n1", city |-> "Austin", signup_date |-> 1],
      [user_id |-> 2, name |-> "n1", city |-> "Austin", signup_date |-> 2]},
     {[user_id |-> 1, name |-> "n1", city |-> "Dallas", signup_date |-> 1],
      [user_id |-> 2, name |-> "n1", city |-> "Austin", signup_date |-> 2]}}

\* build_dim_products: ROW_NUMBER() OVER (ORDER BY product_id) AS product_key
DimProductsOf(products) ==
    {[product_key |-> RowNumber(p.product_id, {q.product_id : q \in products}),
      product_id |-> p.product_id] : p \in products}

\* 'Region_' || RIGHT(store_id, 3); NULL for a NULL store_id
RegionOf(sid) ==
    CASE sid = 1 -> "Region_001"
      [] sid = 2 -> "Region_002"
      [] OTHER   -> "NULL"

\* ROW_NUMBER() OVER (ORDER BY store_id): ascending, NULL last
StoreRowNumber(sid, S) ==
    IF sid = NullId THEN Cardinality(S)
    ELSE Cardinality({v \in S \ {NullId} : v <= sid})

\* build_dim_stores: one row per DISTINCT store_id of the transactions
DimStoresOf(txn) ==
    LET S == {t.store_id : t \in txn}
    IN {[store_key |-> StoreRowNumber(sid, S), store_id |-> sid,
         region |-> RegionOf(sid)] : sid \in S}

\* mutant of UserKeys: the join with dim_users without `AND du.is_current =
\* TRUE`
UserKeys_AllVersions(t, du) ==
    LET m == {d \in Rows(du) : t.user_id # NullId /\ d.user_id = t.user_id}
    IN IF du = NoTable \/ m = {} THEN {Sentinel}
       ELSE {d.surrogate_key : d \in m}

\* the dimension rows a LEFT JOIN matches for one transaction row, as the
\* set of COALESCE(<key>, -1) values of the joined rows: -1 alone when the
\* dimension is unpublished (no join) or no row matches
UserKeys(t, du) ==
    LET m == {d \in Rows(du) :
                t.user_id # NullId /\ d.user_id = t.user_id /\ d.is_current}
    IN IF du = NoTable \/ m = {} THEN {Sentinel}
       ELSE {d.surrogate_key : d \in m}

ProductKeys(t, dp) ==
    LET m == {d \in Rows(dp) : d.product_id = t.product_id}
    IN IF dp = NoTable \/ m = {} THEN {Sentinel}
       ELSE {d.product_key : d \in m}

StoreKeys(t, ds) ==
    LET m == {d \in Rows(ds) : t.store_id # NullId /\ d.store_id = t.store_id}
    IN IF ds = NoTable \/ m = {} THEN {Sentinel}
       ELSE {d.store_key : d \in m}

\* COALESCE(ds.region, 'Unknown')
RegionOfKey(k, ds) ==
    IF k = Sentinel THEN "Unknown"
    ELSE (CHOOSE d \in Rows(ds) : d.store_key = k).region

\* CREATE TABLE fact_transactions_temp AS SELECT ... FROM silver t LEFT JOIN
\* dim_users, dim_products, dim_stores.  `src` is not a column of the table:
\* it records the validated row a fact row was joined from.
FactJoin(txn, du, dp, ds) ==
    {[src |-> t, transaction_id |-> t.transaction_id,
      user_key |-> uk, product_key |-> pk, store_key |-> sk,
      region |-> RegionOfKey(sk, ds)] :
        <<t, uk, pk, sk>> \in
            UNION {{t2} \X UserKeys(t2, du) \X ProductKeys(t2, dp) \X StoreKeys(t2, ds)
                   : t2 \in txn}}

\* the value a cleaner leaves in its silver file: it rewrites the file with a
\* table of the family, or skips (no raw artifact) and leaves the file alone
Rewritten(file, family) == {file} \cup {<<t>> : t \in family}

\* the same for a cleaner whose rows never change once read: raw artifacts
\* only pile up, so the rewritten table holds the rows of the one before
RewrittenGrown(file, family) ==
    {file} \cup {<<t>> : t \in {x \in family : Rows(file) \subseteq x}}

\* clean_all: clean_transactions, clean_users, clean_products, each writing
\* a table of the given family
CleanAllFrom(txnTables, userTables, productTables) ==
    /\ stage = "idle"
    /\ runs < MaxRuns
    /\ silver_txn' \in RewrittenGrown(silver_txn, txnTables)
    /\ silver_users' \in Rewritten(silver_users, userTables)
    /\ silver_products' \in RewrittenGrown(silver_products, productTables)
    /\ runs' = runs + 1
    /\ stage' = "scd"
    /\ UNCHANGED <<dim_users, today, merges, sk_issued, sk_fresh, dim_products,
                   dim_stores, fact_txn, fact_temp, tmp_file>>

CleanAll == CleanAllFrom(TxnTables, PipelineUserTables, ProductTables)

\* apply_scd_type_2 as step 2 of the pipeline; without silver users the read
\* raises and run_pipeline goes on
ScdStage ==
    /\ stage = "scd"
    /\ \/ ApplyScdInitial
       \/ ApplyScdMerge
       \/ silver_users = NoTable /\ UNCHANGED scdVars
    /\ stage' = "dim_products"
    /\ UNCHANGED <<silver_txn, silver_products, dim_products, dim_stores, fact_txn,
                   fact_temp, tmp_file, runs>>

\* build_dim_products: skipped without silver products, else COPY ... TO
\* dim_products.parquet
BuildDimProducts ==
    /\ stage = "dim_products"
    /\ dim_products' = IF silver_products = NoTable THEN dim_products
                       ELSE <<DimProductsOf(silver_products[1])>>
    /\ stage' = "dim_stores"
    /\ UNCHANGED <<scdVars, silver_txn, silver_products, dim_stores, fact_txn,
                   fact_temp, tmp_file, runs>>

\* build_dim_stores: skipped without silver transactions
BuildDimStores ==
    /\ stage = "dim_stores"
    /\ dim_stores' = IF silver_txn = NoTable THEN dim_stores
                     ELSE <<DimStoresOf(silver_txn[1])>>
    /\ stage' = "fact"
    /\ UNCHANGED <<scdVars, silver_txn, silver_products, dim_products, fact_txn,
                   fact_temp, tmp_file, runs>>

\* a dimension builder raises (after its retries); build_star_schema catches
\* the exception and goes on with the next builder
BuildDimFails ==
    /\ stage \in {"dim_products", "dim_stores"}
    /\ stage' = IF stage = "dim_products" THEN "dim_stores" ELSE "fact"
    /\ UNCHANGED <<scdVars, silver_txn, silver_products, dim_products, dim_stores,
                   fact_txn, fact_temp, tmp_file, runs>>

\* build_fact_transactions up to the temp table: skipped without silver
\* transactions, else the join over the dimensions that _gold_exists finds
BuildFactJoin ==
    /\ stage = "fact"
    /\ IF silver_txn = NoTable
       THEN stage' = "idle" /\ fact_temp' = fact_temp
       ELSE /\ fact_temp' = <<FactJoin(silver_txn[1], dim_users, dim_products,
                                        dim_stores)>>
            /\ stage' = "fact_copy"
    /\ UNCHANGED <<scdVars, silver_txn, silver_products, dim_products, dim_stores,
                   fact_txn, tmp_file, runs>>

\* COPY fact_transactions_temp TO '<path>.tmp'; DROP TABLE
FactCopyToTemp ==
    /\ stage = "fact_copy"
    /\ tmp_file' = fact_temp
    /\ fact_temp' = NoTable
    /\ stage' = "fact_remove"
    /\ UNCHANGED <<scdVars, silver_txn, silver_products, dim_products, dim_stores,
                   fact_txn, runs>>

\* if os.path.exists(GOLD_FACT_TXN): os.remove(GOLD_FACT_TXN)
FactRemoveOld ==
    /\ stage = "fact_remove"
    /\ fact_txn' = NoTable
    /\ stage' = "fact_rename"
    /\ UNCHANGED <<scdVars, silver_txn, silver_products, dim_products, dim_stores,
                   fact_temp, tmp_file, runs>>

\* os.rename(temp_file, GOLD_FACT_TXN)
FactRename ==
    /\ stage = "fact_rename"
    /\ fact_txn' = tmp_file
    /\ tmp_file' = NoTable
    /\ stage' = "idle"
    /\ UNCHANGED <<scdVars, silver_txn, silver_products, dim_products, dim_stores,
                   fact_temp, runs>>

\* the COPY, the os.remove or the os.rename raises: the except branch drops
\* the temp table, removes the .tmp file and re-raises
FactPublishFails ==
    /\ stage \in {"fact_copy", "fact_remove", "fact_rename"}
    /\ fact_temp' = NoTable
    /\ tmp_file' = NoTable
    /\ stage' = "idle"
    /\ UNCHANGED <<scdVars, silver_txn, silver_products, dim_products, dim_stores,
                   fact_txn, runs>>

NextStar ==
    \/ CleanAll /\ UNCHANGED <<streamVars, cacheVars, cursorVars, pubVars, cleanVars, amtVars, pipeVars, retryVars, discVars, procVars>>
    \/ ScdStage /\ UNCHANGED <<streamVars, cacheVars, cursorVars, pubVars, cleanVars, amtVars, pipeVars, retryVars, discVars, procVars>>
    \/ BuildDimProducts /\ UNCHANGED <<streamVars, cacheVars, cursorVars, pubVars, cleanVars, amtVars, pipeVars, retryVars, discVars, procVars>>
    \/ BuildDimStores /\ UNCHANGED <<streamVars, cacheVars, cursorVars, pubVars, cleanVars, amtVars, pipeVars, retryVars, discVars, procVars>>
    \/ BuildDimFails /\ UNCHANGED <<streamVars, cacheVars, cursorVars, pubVars, cleanVars, amtVars, pipeVars, retryVars, discVars, procVars>>
    \/ BuildFactJoin /\ UNCHANGED <<streamVars, cacheVars, cursorVars, pubVars, cleanVars, amtVars, pipeVars, retryVars, discVars, procVars>>
    \/ FactCopyToTemp /\ UNCHANGED <<streamVars, cacheVars, cursorVars, pubVars, cleanVars, amtVars, pipeVars, retryVars, discVars, procVars>>
    \/ FactRemoveOld /\ UNCHANGED <<streamVars, cacheVars, cursorVars, pubVars, cleanVars, amtVars, pipeVars, retryVars, discVars, procVars>>
    \/ FactRename /\ UNCHANGED <<streamVars, cacheVars, cursorVars, pubVars, cleanVars, amtVars, pipeVars, retryVars, discVars, procVars>>
    \/ FactPublishFails /\ UNCHANGED <<streamVars, cacheVars, cursorVars, pubVars, cleanVars, amtVars, pipeVars, retryVars, discVars, procVars>>
    \/ DayPasses /\ UNCHANGED <<streamVars, starVars, cacheVars, cursorVars, pubVars, cleanVars, amtVars, pipeVars, retryVars, discVars, procVars>>

SpecStar == Init /\ [][NextStar]_vars

(***************************************************************************)
(* The table map cache of the query layer (kpi_queries.py,                 *)
(* schema_inspector.py) and the processes that run the pipeline            *)
(* (api/main.py, stream_processor.py).                                     *)
(***************************************************************************)
\* one entry of data/gold as pathlib presents it
Entry(name, stem, suffix) ==
    [name |-> name, stem |-> stem, suffix |-> suffix, is_dir |-> FALSE,
     hidden |-> FALSE]

\* data/gold/<t>.parquet when it is a directory of partitions
DirEntry(t) ==
    [name |-> IF t = "fact_inventory" THEN "fact_inventory.parquet"
              ELSE "fact_shipments.parquet",
     stem |-> t, suffix |-> ".parquet", is_dir |-> TRUE, hidden |-> FALSE]

\* gold_dir.iterdir(): the files and directories that exist in data/gold
GoldDir ==
    (IF dim_users # NoTable
     THEN {Entry("dim_users.parquet", "dim_users", ".parquet")} ELSE {})
    \cup (IF dim_products # NoTable \/ "dim_products" \in half_written
          THEN {Entry("dim_products.parquet", "dim_products", ".parquet")} ELSE {})
    \cup (IF dim_stores # NoTable \/ "dim_stores" \in half_written
          THEN {Entry("dim_stores.parquet", "dim_stores", ".parquet")} ELSE {})
    \cup (IF fact_txn # NoTable
          THEN {Entry("fact_transactions.parquet", "fact_transactions", ".parquet")}
          ELSE {})
    \cup (IF tmp_file # NoTable
          THEN {Entry("fact_transactions.parquet.tmp", "fact_transactions.parquet",
                      ".tmp")}
          ELSE {})
    \cup {DirEntry(t) : t \in {x \in DirTables : fact_dir[x] # NoTable}}

\* the entries the loop of discover_tables makes an assignment for: the
\* name starts with neither '.' nor '_' (hidden), and the entry is a
\* directory or a file with the suffix .parquet
Qualifying(dir) ==
    {x \in dir : ~x.hidden /\ (x.is_dir \/ x.suffix = ".parquet")}

\* tables[table_name] = ... for one entry: the key is the stem, a directory
\* gives a read_parquet locator, a file its quoted path
Assignment(e) ==
    [table |-> e.stem,
     locator |-> IF e.is_dir THEN <<"read_parquet", e.name>> ELSE <<"file", e.name>>]

\* discover_tables on a directory in which no two qualifying entries have
\* the same stem (data/gold as the builders write it): the assignments of
\* the loop
DiscoverTables(dir) ==
    {Assignment(e) : e \in Qualifying(dir)}

\* the maps discover_tables can return on any directory: `tables` is a
\* dict, an assignment to a key that is already there replaces the earlier
\* one, and iterdir() yields the entries in an order the file system
\* chooses; so one assignment per key is left
DiscoverTablesMaps(dir) ==
    {m \in SUBSET DiscoverTables(dir) :
        \A a \in DiscoverTables(dir) :
            Cardinality({b \in m : b.table = a.table}) = 1}

\* the silver tables of the runs in the cache specification
CacheTxnTables == {{Txn(1, 1, 2, 2)}}
CacheUserTables ==
    {{[user_id |-> 1, name |-> "n1", city |-> "Austin", signup_date |-> 1]}}
CacheProductTables == {{[product_id |-> 2]}}

\* trigger_pipeline, upload_dataset, process_mapped_file: the handler sets
\* kpi_mod._table_cache = None in the API process and then runs pipeline.py
\* in a subprocess
ApiRunPipeline ==
    /\ runner = "none"
    /\ CleanAllFrom(CacheTxnTables, CacheUserTables, CacheProductTables)
    /\ table_cache' = [table_cache EXCEPT !["api"] = NoCache]
    /\ runner' = "api"
    /\ UNCHANGED q_result

\* subprocess.run returns and the handler answers
ApiRunDone ==
    /\ runner = "api"
    /\ stage = "idle"
    /\ runner' = "none"
    /\ UNCHANGED <<scdVars, starVars, table_cache, q_result>>

\* process_micro_batch in the stream processor process calls
\* trigger_incremental_pipeline
ProcessorRunPipeline ==
    /\ runner = "none"
    /\ CleanAllFrom(CacheTxnTables, CacheUserTables, CacheProductTables)
    /\ runner' = "processor"
    /\ UNCHANGED <<table_cache, q_result>>

\* after build_star_schema, trigger_incremental_pipeline sets
\* kpi_mod._table_cache = None: the module global of its own process
ProcessorRunDone ==
    /\ runner = "processor"
    /\ stage = "idle"
    /\ table_cache' = [table_cache EXCEPT !["processor"] = NoCache]
    /\ runner' = "none"
    /\ UNCHANGED <<scdVars, starVars, q_result>>

\* _get_table_paths, called by a KPI function serving a request in the API
\* process: fills the cache when it is None, returns the cache
GetTablePaths ==
    /\ q_result = NoResult
    /\ table_cache' = [table_cache EXCEPT
                          !["api"] = IF @ = NoCache
                                     THEN <<DiscoverTables(GoldDir)>>
                                     ELSE @]
    /\ q_result' = table_cache'["api"]
    /\ UNCHANGED <<scdVars, starVars, runner>>

\* the request is answered
QueryDone ==
    /\ q_result # NoResult
    /\ q_result' = NoResult
    /\ UNCHANGED <<scdVars, starVars, table_cache, runner>>

NextCache ==
    \/ ApiRunPipeline /\ UNCHANGED <<streamVars, cursorVars, pubVars, cleanVars, amtVars, pipeVars, retryVars, discVars, procVars>>
    \/ ApiRunDone /\ UNCHANGED <<streamVars, cursorVars, pubVars, cleanVars, amtVars, pipeVars, retryVars, discVars, procVars>>
    \/ ProcessorRunPipeline /\ UNCHANGED <<streamVars, cursorVars, pubVars, cleanVars, amtVars, pipeVars, retryVars, discVars, procVars>>
    \/ ProcessorRunDone /\ UNCHANGED <<streamVars, cursorVars, pubVars, cleanVars, amtVars, pipeVars, retryVars, discVars, procVars>>
    \/ GetTablePaths /\ UNCHANGED <<streamVars, cursorVars, pubVars, cleanVars, amtVars, pipeVars, retryVars, discVars, procVars>>
    \/ QueryDone /\ UNCHANGED <<streamVars, cursorVars, pubVars, cleanVars, amtVars, pipeVars, retryVars, discVars, procVars>>
    \/ ScdStage /\ UNCHANGED <<streamVars, cacheVars, cursorVars, pubVars, cleanVars, amtVars, pipeVars, retryVars, discVars, procVars>>
    \/ BuildDimProducts /\ UNCHANGED <<streamVars, cacheVars, cursorVars, pubVars, cleanVars, amtVars, pipeVars, retryVars, discVars, procVars>>
    \/ BuildDimStores /\ UNCHANGED <<streamVars, cacheVars, cursorVars, pubVars, cleanVars, amtVars, pipeVars, retryVars, discVars, procVars>>
    \/ BuildDimFails /\ UNCHANGED <<streamVars, cacheVars, cursorVars, pubVars, cleanVars, amtVars, pipeVars, retryVars, discVars, procVars>>
    \/ BuildFactJoin /\ UNCHANGED <<streamVars, cacheVars, cursorVars, pubVars, cleanVars, amtVars, pipeVars, retryVars, discVars, procVars>>
    \/ FactCopyToTemp /\ UNCHANGED <<streamVars, cacheVars, cursorVars, pubVars, cleanVars, amtVars, pipeVars, retryVars, discVars, procVars>>
    \/ FactRemoveOld /\ UNCHANGED <<streamVars, cacheVars, cursorVars, pubVars, cleanVars, amtVars, pipeVars, retryVars, discVars, procVars>>
    \/ FactRename /\ UNCHANGED <<streamVars, cacheVars, cursorVars, pubVars, cleanVars, amtVars, pipeVars, retryVars, discVars, procVars>>
    \/ FactPublishFails /\ UNCHANGED <<streamVars, cacheVars, cursorVars, pubVars, cleanVars, amtVars, pipeVars, retryVars, discVars, procVars>>

SpecCache == Init /\ [][NextCache]_vars

(***************************************************************************)
(* Writers of the cursor marker: reset_data (api/main.py) and, step by     *)
(* step, set_last_processed_line (stream_processor.py).                    *)
(***************************************************************************)
\* reset_data: rmtree of data/raw, data/silver and data/gold, unlink of
\* events.jsonl and last_processed.txt, marker_file.write_text("0"), cache
\* clear in the API process
ResetData ==
    /\ resets < MaxResets
    /\ rawFiles' = {}
    /\ silver_users' = NoTable
    /\ silver_txn' = NoTable
    /\ silver_products' = NoTable
    /\ dim_users' = NoTable
    /\ dim_products' = NoTable
    /\ dim_stores' = NoTable
    /\ fact_txn' = NoTable
    /\ tmp_file' = NoTable
    /\ log' = <<>>
    /\ marker' = <<Str(0)>>
    /\ table_cache' = [table_cache EXCEPT !["api"] = NoCache]
    /\ resets' = resets + 1
    /\ silver_dir' = [t \in DirTables |-> NoTable]
    /\ fact_dir' = [t \in DirTables |-> NoTable]
    /\ half_written' = {}
    /\ UNCHANGED <<pc, events, last_processed, now, fails, today, merges,
                   sk_issued, sk_fresh, fact_temp, stage, runs, runner, q_result,
                   total_lines, dir_temp, building, step, at_start>>

NextReset ==
    \/ AppendEvent /\ UNCHANGED <<scdVars, starVars, cacheVars, cursorVars, pubVars, cleanVars, amtVars, pipeVars, retryVars, discVars, procVars>>
    \/ ReadNewEvents /\ UNCHANGED <<scdVars, starVars, cacheVars, cursorVars, pubVars, cleanVars, amtVars, pipeVars, retryVars, discVars, procVars>>
    \/ WriteEventsToCsv /\ UNCHANGED <<scdVars, starVars, cacheVars, cursorVars, pubVars, cleanVars, amtVars, pipeVars, retryVars, discVars, procVars>>
    \/ WriteEventsFails /\ UNCHANGED <<scdVars, starVars, cacheVars, cursorVars, pubVars, cleanVars, amtVars, pipeVars, retryVars, discVars, procVars>>
    \/ UpdateMarker /\ UNCHANGED <<scdVars, starVars, cacheVars, cursorVars, pubVars, cleanVars, amtVars, pipeVars, retryVars, discVars, procVars>>
    \/ FinishCycle /\ UNCHANGED <<scdVars, starVars, cacheVars, cursorVars, pubVars, cleanVars, amtVars, pipeVars, retryVars, discVars, procVars>>
    \/ RestartProcessor /\ UNCHANGED <<scdVars, starVars, cacheVars, cursorVars, pubVars, cleanVars, amtVars, pipeVars, retryVars, discVars, procVars>>
    \/ ResetData /\ UNCHANGED <<cleanVars, amtVars, pipeVars, retryVars, discVars, procVars>>

SpecReset == Init /\ [][NextReset]_vars

\* with open(STREAM_BUFFER) as f: total_lines = sum(1 for _ in f)
CountLines ==
    /\ pc = "mark"
    /\ total_lines' = Len(log)
    /\ pc' = "open_marker"
    /\ UNCHANGED <<log, marker, rawFiles, events, last_processed, now, fails, resets>>

\* set_last_processed_line: open(PROCESSED_MARKER, 'w') truncates the file
OpenMarker ==
    /\ pc = "open_marker"
    /\ marker' = <<EmptyText>>
    /\ pc' = "write_marker"
    /\ UNCHANGED <<log, rawFiles, events, last_processed, now, fails, cursorVars>>

\* set_last_processed_line: f.write(str(line_num)) and the close at the end
\* of the with block put the digits in the file
CloseMarker ==
    /\ pc = "write_marker"
    /\ marker' = <<Str(total_lines)>>
    /\ pc' = "pipeline"
    /\ UNCHANGED <<log, rawFiles, events, last_processed, now, fails, cursorVars>>

\* stop_stream sends SIGTERM to the processor between the open and the close
StopWhileMarking ==
    /\ pc = "write_marker"
    /\ pc' = "crashed"
    /\ UNCHANGED <<log, marker, rawFiles, events, last_processed, now, fails,
                   cursorVars>>

\* read_new_events: int(f.read().strip()) raises ValueError, which leaves
\* process_micro_batch and run_stream_processor
ReadNewEventsFails ==
    /\ pc = "idle"
    /\ MarkerUnreadable
    /\ fails < MaxFail
    /\ fails' = fails + 1
    /\ pc' = "crashed"
    /\ UNCHANGED <<log, marker, rawFiles, events, last_processed, now, cursorVars>>

NextMarker ==
    \/ AppendEvent /\ UNCHANGED <<scdVars, starVars, cacheVars, cursorVars, pubVars, cleanVars, amtVars, pipeVars, retryVars, discVars, procVars>>
    \/ ReadNewEvents /\ UNCHANGED <<scdVars, starVars, cacheVars, cursorVars, pubVars, cleanVars, amtVars, pipeVars, retryVars, discVars, procVars>>
    \/ ReadNewEventsFails /\ UNCHANGED <<scdVars, starVars, cacheVars, pubVars, cleanVars, amtVars, pipeVars, retryVars, discVars, procVars>>
    \/ WriteEventsToCsv /\ UNCHANGED <<scdVars, starVars, cacheVars, cursorVars, pubVars, cleanVars, amtVars, pipeVars, retryVars, discVars, procVars>>
    \/ WriteEventsFails /\ UNCHANGED <<scdVars, starVars, cacheVars, cursorVars, pubVars, cleanVars, amtVars, pipeVars, retryVars, discVars, procVars>>
    \/ CountLines /\ UNCHANGED <<scdVars, starVars, cacheVars, pubVars, cleanVars, amtVars, pipeVars, retryVars, discVars, procVars>>
    \/ OpenMarker /\ UNCHANGED <<scdVars, starVars, cacheVars, pubVars, cleanVars, amtVars, pipeVars, retryVars, discVars, procVars>>
    \/ CloseMarker /\ UNCHANGED <<scdVars, starVars, cacheVars, pubVars, cleanVars, amtVars, pipeVars, retryVars, discVars, procVars>>
    \/ StopWhileMarking /\ UNCHANGED <<scdVars, starVars, cacheVars, pubVars, cleanVars, amtVars, pipeVars, retryVars, discVars, procVars>>
    \/ FinishCycle /\ UNCHANGED <<scdVars, starVars, cacheVars, cursorVars, pubVars, cleanVars, amtVars, pipeVars, retryVars, discVars, procVars>>
    \/ RestartProcessor /\ UNCHANGED <<scdVars, starVars, cacheVars, cursorVars, pubVars, cleanVars, amtVars, pipeVars, retryVars, discVars, procVars>>

SpecMarker == Init /\ [][NextMarker]_vars

\* the marker writers step by step together with the data reset
NextMarkerReset ==
    \/ AppendEvent /\ UNCHANGED <<scdVars, starVars, cacheVars, cursorVars, pubVars, cleanVars, amtVars, pipeVars, retryVars, discVars, procVars>>
    \/ ReadNewEvents /\ UNCHANGED <<scdVars, starVars, cacheVars, cursorVars, pubVars, cleanVars, amtVars, pipeVars, retryVars, discVars, procVars>>
    \/ ReadNewEventsFails /\ UNCHANGED <<scdVars, starVars, cacheVars, pubVars, cleanVars, amtVars, pipeVars, retryVars, discVars, procVars>>
    \/ WriteEventsToCsv /\ UNCHANGED <<scdVars, starVars, cacheVars, cursorVars, pubVars, cleanVars, amtVars, pipeVars, retryVars, discVars, procVars>>
    \/ WriteEventsFails /\ UNCHANGED <<scdVars, starVars, cacheVars, cursorVars, pubVars, cleanVars, amtVars, pipeVars, retryVars, discVars, procVars>>
    \/ CountLines /\ UNCHANGED <<scdVars, starVars, cacheVars, pubVars, cleanVars, amtVars, pipeVars, retryVars, discVars, procVars>>
    \/ OpenMarker /\ UNCHANGED <<scdVars, starVars, cacheVars, pubVars, cleanVars, amtVars, pipeVars, retryVars, discVars, procVars>>
    \/ CloseMarker /\ UNCHANGED <<scdVars, starVars, cacheVars, pubVars, cleanVars, amtVars, pipeVars, retryVars, discVars, procVars>>
    \/ StopWhileMarking /\ UNCHANGED <<scdVars, starVars, cacheVars, pubVars, cleanVars, amtVars, pipeVars, retryVars, discVars, procVars>>
    \/ FinishCycle /\ UNCHANGED <<scdVars, starVars, cacheVars, cursorVars, pubVars, cleanVars, amtVars, pipeVars, retryVars, discVars, procVars>>
    \/ RestartProcessor /\ UNCHANGED <<scdVars, starVars, cacheVars, cursorVars, pubVars, cleanVars, amtVars, pipeVars, retryVars, discVars, procVars>>
    \/ ResetData /\ UNCHANGED <<cleanVars, amtVars, pipeVars, retryVars, discVars, procVars>>

SpecMarkerReset == Init /\ [][NextMarkerReset]_vars

(***************************************************************************)
(* The whole pipeline run with the publish steps of every builder:         *)
(* build_fact_inventory and build_fact_shipments after                     *)
(* build_fact_transactions, COPY onto a published path, and a run that is  *)
(* killed (run_transformation_pipeline: subprocess.run(..., timeout=120)). *)
(***************************************************************************)
\* validated inventory rows (product_id, store_id unique per row)
InventoryTables == {{[product_id |-> 2, store_id |-> 2]}}

\* validated shipment rows
ShipmentTables ==
    {{[shipment_id |-> 1, origin_store_id |-> 2, dest_store_id |-> 1]}}

SilverDirTables(t) ==
    IF t = "fact_inventory" THEN InventoryTables ELSE ShipmentTables

\* the dimension files a builder names in its FROM clause without asking
\* _gold_exists
DimsRead(t) ==
    IF t = "fact_inventory" THEN {"dim_products", "dim_stores"} ELSE {"dim_stores"}

\* the published single-file tables
PublishedFiles ==
    {t \in FileTables :
        CASE t = "dim_users" -> dim_users # NoTable
          [] t = "dim_products" -> dim_products # NoTable
          [] t = "dim_stores" -> dim_stores # NoTable
          [] OTHER -> fact_txn # NoTable}

\* the published tables
Published == PublishedFiles \cup {t \in DirTables : fact_dir[t] # NoTable}

\* COALESCE(ds.store_key, -1) of a LEFT JOIN on a store id
StoreKeysOf(sid, ds) == StoreKeys([store_id |-> sid], ds)

\* fact_inventory_temp: silver inventory LEFT JOIN dim_products, dim_stores
InventoryJoin(inv, dp, ds) ==
    {[src |-> i, product_key |-> pk, store_key |-> sk,
      region |-> RegionOfKey(sk, ds)] :
        <<i, pk, sk>> \in
            UNION {{i2} \X ProductKeys(i2, dp) \X StoreKeys(i2, ds) : i2 \in inv}}

\* fact_shipments_temp: silver shipments LEFT JOIN dim_stores (origin, dest)
ShipmentsJoin(sh, ds) ==
    {[src |-> x, shipment_id |-> x.shipment_id, origin_store_key |-> ok,
      dest_store_key |-> dk, origin_region |-> RegionOfKey(ok, ds),
      dest_region |-> RegionOfKey(dk, ds)] :
        <<x, ok, dk>> \in
            UNION {{x2} \X StoreKeysOf(x2.origin_store_id, ds)
                        \X StoreKeysOf(x2.dest_store_id, ds) : x2 \in sh}}

DirJoinOf(t) ==
    IF t = "fact_inventory"
    THEN InventoryJoin(silver_dir[t][1], dim_products, dim_stores)
    ELSE ShipmentsJoin(silver_dir[t][1], dim_stores)

\* the builder after the one of table t in build_star_schema
AfterBuilder(t) == IF t = "fact_inventory" THEN "fact_shipments" ELSE "done"

\* clean_all of a run, with clean_inventory and clean_shipments
PubCleanAll ==
    /\ building = "none"
    /\ CleanAllFrom(CacheTxnTables, CacheUserTables, CacheProductTables)
    /\ silver_dir' \in {f \in [DirTables -> {NoTable} \cup
                                  {<<r>> : r \in InventoryTables \cup ShipmentTables}] :
                            \A t \in DirTables :
                                f[t] \in Rewritten(silver_dir[t], SilverDirTables(t))}
    /\ building' = "star"
    /\ at_start' = Published
    /\ UNCHANGED <<fact_dir, dir_temp, half_written, step>>

\* COPY (...) TO a published single file, in a DuckDB build that opens the
\* target itself: the file holds a part of the table until the COPY ends
CopyInPlaceBegins ==
    /\ \/ stage = "dim_products" /\ silver_products # NoTable
          /\ half_written' = half_written \cup {"dim_products"}
       \/ stage = "dim_stores" /\ silver_txn # NoTable
          /\ half_written' = half_written \cup {"dim_stores"}
    /\ half_written' # half_written
    /\ UNCHANGED <<scdVars, starVars, silver_dir, fact_dir, dir_temp, building,
                   step, at_start>>

\* build_fact_inventory / build_fact_shipments up to the temp table: skipped
\* without the silver file; the CREATE TABLE raises duckdb.IOException when
\* a dimension file of its FROM clause does not exist, and again in every
\* retry, and build_star_schema goes on with the next builder
DirJoin ==
    /\ building \in DirTables
    /\ step = "join"
    /\ IF silver_dir[building] = NoTable \/ ~(DimsRead(building) \subseteq Published)
       THEN building' = AfterBuilder(building) /\ UNCHANGED <<dir_temp, step>>
       ELSE /\ dir_temp' = [dir_temp EXCEPT ![building] = <<DirJoinOf(building)>>]
            /\ step' = "remove"
            /\ UNCHANGED building
    /\ UNCHANGED <<scdVars, starVars, silver_dir, fact_dir, half_written, at_start>>

\* if os.path.exists(path): shutil.rmtree(path)
DirRemoveOld ==
    /\ building \in DirTables
    /\ step = "remove"
    /\ fact_dir' = [fact_dir EXCEPT ![building] = NoTable]
    /\ step' = "copy"
    /\ UNCHANGED <<scdVars, starVars, silver_dir, dir_temp, half_written, building,
                   at_start>>

\* COPY ... TO '<path>' (PARTITION_BY ...): the partition files appear one
\* after the other under the published path
DirCopyBegins ==
    /\ building \in DirTables
    /\ step = "copy"
    /\ fact_dir' = [fact_dir EXCEPT ![building] = dir_temp[building]]
    /\ half_written' = half_written \cup {building}
    /\ step' = "copying"
    /\ UNCHANGED <<scdVars, starVars, silver_dir, dir_temp, building, at_start>>

\* the COPY ends; DROP TABLE IF EXISTS <temp>
DirCopyEnds ==
    /\ building \in DirTables
    /\ step = "copying"
    /\ half_written' = half_written \ {building}
    /\ dir_temp' = [dir_temp EXCEPT ![building] = NoTable]
    /\ building' = AfterBuilder(building)
    /\ step' = "join"
    /\ UNCHANGED <<scdVars, starVars, silver_dir, fact_dir, at_start>>

\* build_fact_transactions has returned or raised: build_star_schema calls
\* build_fact_inventory
StartDirBuilders ==
    /\ building = "star"
    /\ stage = "idle"
    /\ building' = "fact_inventory"
    /\ step' = "join"
    /\ UNCHANGED <<scdVars, starVars, silver_dir, fact_dir, dir_temp, half_written,
                   at_start>>

\* build_star_schema returns and the pipeline process exits
RunEnds ==
    /\ building = "done"
    /\ building' = "none"
    /\ UNCHANGED <<scdVars, starVars, silver_dir, fact_dir, dir_temp, half_written,
                   step, at_start>>

\* the pipeline process is killed: its DuckDB tables are gone, the files
\* stay as they are
PipelineKilled ==
    /\ building \in {"star"} \cup DirTables
    /\ building = "star" => stage # "idle"
    /\ stage' = "idle"
    /\ fact_temp' = NoTable
    /\ dir_temp' = [t \in DirTables |-> NoTable]
    /\ building' = "none"
    /\ step' = "join"
    /\ UNCHANGED <<scdVars, silver_txn, silver_products, dim_products, dim_stores,
                   fact_txn, tmp_file, runs, silver_dir, fact_dir, half_written,
                   at_start>>

NextPublish ==
    \/ PubCleanAll /\ UNCHANGED <<streamVars, cacheVars, cursorVars, cleanVars, amtVars, pipeVars, retryVars, discVars, procVars>>
    \/ ScdStage /\ UNCHANGED <<streamVars, cacheVars, cursorVars, pubVars, cleanVars, amtVars, pipeVars, retryVars, discVars, procVars>>
    \/ CopyInPlaceBegins /\ UNCHANGED <<streamVars, cacheVars, cursorVars, cleanVars, amtVars, pipeVars, retryVars, discVars, procVars>>
    \/ /\ BuildDimProducts
       /\ half_written' = half_written \ {"dim_products"}
       /\ UNCHANGED <<streamVars, cacheVars, cursorVars, silver_dir, fact_dir,
                      dir_temp, building, step, at_start, cleanVars, amtVars, pipeVars, retryVars, discVars, procVars>>
    \/ /\ BuildDimStores
       /\ half_written' = half_written \ {"dim_stores"}
       /\ UNCHANGED <<streamVars, cacheVars, cursorVars, silver_dir, fact_dir,
                      dir_temp, building, step, at_start, cleanVars, amtVars, pipeVars, retryVars, discVars, procVars>>
    \/ BuildDimFails /\ UNCHANGED <<streamVars, cacheVars, cursorVars, pubVars, cleanVars, amtVars, pipeVars, retryVars, discVars, procVars>>
    \/ BuildFactJoin /\ UNCHANGED <<streamVars, cacheVars, cursorVars, pubVars, cleanVars, amtVars, pipeVars, retryVars, discVars, procVars>>
    \/ FactCopyToTemp /\ UNCHANGED <<streamVars, cacheVars, cursorVars, pubVars, cleanVars, amtVars, pipeVars, retryVars, discVars, procVars>>
    \/ FactRemoveOld /\ UNCHANGED <<streamVars, cacheVars, cursorVars, pubVars, cleanVars, amtVars, pipeVars, retryVars, discVars, procVars>>
    \/ FactRename /\ UNCHANGED <<streamVars, cacheVars, cursorVars, pubVars, cleanVars, amtVars, pipeVars, retryVars, discVars, procVars>>
    \/ FactPublishFails /\ UNCHANGED <<streamVars, cacheVars, cursorVars, pubVars, cleanVars, amtVars, pipeVars, retryVars, discVars, procVars>>
    \/ StartDirBuilders /\ UNCHANGED <<streamVars, cacheVars, cursorVars, cleanVars, amtVars, pipeVars, retryVars, discVars, procVars>>
    \/ DirJoin /\ UNCHANGED <<streamVars, cacheVars, cursorVars, cleanVars, amtVars, pipeVars, retryVars, discVars, procVars>>
    \/ DirRemoveOld /\ UNCHANGED <<streamVars, cacheVars, cursorVars, cleanVars, amtVars, pipeVars, retryVars, discVars, procVars>>
    \/ DirCopyBegins /\ UNCHANGED <<streamVars, cacheVars, cursorVars, cleanVars, amtVars, pipeVars, retryVars, discVars, procVars>>
    \/ DirCopyEnds /\ UNCHANGED <<streamVars, cacheVars, cursorVars, cleanVars, amtVars, pipeVars, retryVars, discVars, procVars>>
    \/ RunEnds /\ UNCHANGED <<streamVars, cacheVars, cursorVars, cleanVars, amtVars, pipeVars, retryVars, discVars, procVars>>
    \/ PipelineKilled /\ UNCHANGED <<streamVars, cacheVars, cursorVars, cleanVars, amtVars, pipeVars, retryVars, discVars, procVars>>

SpecPublish == Init /\ [][NextPublish]_vars

(***************************************************************************)
(* The cleaners (cleaner.py): clean_transactions, clean_users,             *)
(* clean_products and clean_shipments as functions of the raw rows.        *)
(***************************************************************************)
\* the names of the raw users files: users_stream_<ts>.csv written by
\* write_events_to_csv and users_<ts>.csv written by the upload endpoints,
\* <ts> the time of writing as %Y%m%d_%H%M%S
RawFileNames == [stream : BOOLEAN, ts : {1, 2}]

\* the file name f is greater than g as a string: after the common prefix
\* "users_" the letter 's' of a stream file is above every digit of a
\* timestamp, and two timestamps of one width compare as numbers
NameAfter(f, g) ==
    \/ f.stream /\ ~g.stream
    \/ f.stream = g.stream /\ f.ts > g.ts

\* the rows the raw CSV files of an entity can hold; NullId is an empty
\* cell of a key column, `filename` the file a users row was read from
RawRows(entity) ==
    CASE entity = "transactions" ->
            [transaction_id : {NullId, 1}, product_id : {NullId, 1},
             amount : {0, 1, 2}, timestamp : {1, 2}]
      [] entity = "users" ->
            [user_id : {NullId, 1}, city : {"Austin", "Dallas", "NULL"},
             signup_date : {1}, filename : RawFileNames]
      [] entity = "products" ->
            [product_id : {NullId, 1}, price : {0, 1, 2}]
      [] OTHER ->
            [shipment_id : {NullId, 1}, shipping_cost : {-1, 1, 2}]

Entities == {"transactions", "users", "products", "shipments"}

\* mutant of Valid: the amount of a transaction is not looked at
Valid_AnyAmount(entity, r) ==
    CASE entity = "transactions" ->
            r.transaction_id # NullId /\ r.product_id # NullId
      [] entity = "users" -> r.user_id # NullId
      [] entity = "products" -> r.product_id # NullId /\ r.price > 0
      [] OTHER -> r.shipment_id # NullId /\ r.shipping_cost >= 0

\* the WHERE clause of a cleaner
Valid(entity, r) ==
    CASE entity = "transactions" ->
            r.transaction_id # NullId /\ r.product_id # NullId /\ r.amount > 0
      [] entity = "users" -> r.user_id # NullId
      [] entity = "products" -> r.product_id # NullId /\ r.price > 0
      [] OTHER -> r.shipment_id # NullId /\ r.shipping_cost >= 0

\* the DISTINCT ON columns of a cleaner
DedupKey(entity, r) ==
    CASE entity = "transactions" -> <<r.transaction_id, r.product_id>>
      [] entity = "users" -> <<r.user_id>>
      [] entity = "products" -> <<r.product_id>>
      [] OTHER -> <<r.shipment_id>>

\* r comes before q in the ORDER BY of a cleaner, apart from the DISTINCT ON
\* columns: timestamp for transactions, filename DESC, signup_date DESC for
\* users, nothing for products and shipments
SortsBefore(entity, r, q) ==
    CASE entity = "transactions" -> r.timestamp < q.timestamp
      [] entity = "users" ->
            \/ NameAfter(r.filename, q.filename)
            \/ r.filename = q.filename /\ r.signup_date > q.signup_date
      [] OTHER -> FALSE

\* the select list of a cleaner
Projected(entity, r) ==
    CASE entity = "transactions" ->
            [transaction_id |-> r.transaction_id, product_id |-> r.product_id,
             amount |-> r.amount, timestamp |-> r.timestamp]
      [] entity = "users" ->
            [user_id |-> r.user_id,
             city |-> IF r.city = "NULL" THEN "Unknown" ELSE r.city,
             signup_date |-> r.signup_date]
      [] OTHER -> r

\* the tables SELECT DISTINCT ON (...) ... WHERE ... ORDER BY ... can give:
\* one row of every key among the valid rows, a first one in the ORDER BY;
\* which of several first rows it is, the query does not say
CleanedTables(entity, rows) ==
    LET valid == {r \in rows : Valid(entity, r)}
        first == {r \in valid :
                    \A q \in valid :
                        DedupKey(entity, q) = DedupKey(entity, r)
                            => ~SortsBefore(entity, q, r)}
    IN {{Projected(entity, r) : r \in pick} :
            pick \in {p \in SUBSET first :
                        \A r \in first :
                            Cardinality({q \in p : DedupKey(entity, q)
                                                    = DedupKey(entity, r)}) = 1}}

\* raw CSV files of one entity are in data/raw
RawArrives ==
    /\ raw_in.entity = "none"
    /\ \E e \in Entities : \E rows \in SUBSET RawRows(e) :
          /\ Cardinality(rows) <= MaxRaw
          /\ raw_in' = [entity |-> e, rows |-> rows]
    /\ UNCHANGED cleaned

\* clean_all runs the cleaner of the entity on the raw files
RunCleaner ==
    /\ raw_in.entity # "none"
    /\ Len(cleaned) < MaxCleanRuns
    /\ \E t \in CleanedTables(raw_in.entity, raw_in.rows) :
          cleaned' = Append(cleaned, t)
    /\ UNCHANGED raw_in

NextClean ==
    \/ RawArrives /\ UNCHANGED <<streamVars, scdVars, starVars, cacheVars, cursorVars, pubVars, amtVars, pipeVars, retryVars, discVars, procVars>>
    \/ RunCleaner /\ UNCHANGED <<streamVars, scdVars, starVars, cacheVars, cursorVars, pubVars, amtVars, pipeVars, retryVars, discVars, procVars>>

SpecClean == Init /\ [][NextClean]_vars

(***************************************************************************)
(* The amount column of clean_transactions (cleaner.py): amt_expr.         *)
(***************************************************************************)
\* the columns the amount is looked for in
AmountColumns == {"amount", "price", "quantity", "total"}

\* a cell of a raw CSV row: empty (NULL), a text that is no number, or a
\* number
Cells == {[kind |-> "null", v |-> 0], [kind |-> "text", v |-> 0]}
            \cup [kind : {"num"}, v : 0..MaxAmount]

\* TRY_CAST(cell AS DOUBLE): <<>> is NULL
TryCastDouble(cell) == IF cell.kind = "num" THEN <<cell.v>> ELSE <<>>

\* a * b in SQL: NULL when an operand is NULL
Times(a, b) == IF a = <<>> \/ b = <<>> THEN <<>> ELSE <<a[1] * b[1]>>

\* COALESCE(parts): the first part that is not NULL, NULL when there is none
RECURSIVE Coalesce(_)
Coalesce(parts) ==
    IF parts = <<>> THEN <<>>
    ELSE IF Head(parts) # <<>> THEN Head(parts)
    ELSE Coalesce(Tail(parts))

\* mutant of AmtCandidates: price is tried before price * quantity
AmtCandidates_PriceFirst(cols, row) ==
    (IF "amount" \in cols THEN <<TryCastDouble(row["amount"])>> ELSE <<>>)
    \o (IF "price" \in cols THEN <<TryCastDouble(row["price"])>> ELSE <<>>)
    \o (IF "price" \in cols /\ "quantity" \in cols
        THEN <<Times(TryCastDouble(row["price"]), TryCastDouble(row["quantity"]))>>
        ELSE <<>>)
    \o (IF "total" \in cols THEN <<TryCastDouble(row["total"])>> ELSE <<>>)

\* amt_candidates, evaluated on one row
AmtCandidates(cols, row) ==
    (IF "amount" \in cols THEN <<TryCastDouble(row["amount"])>> ELSE <<>>)
    \o (IF "price" \in cols /\ "quantity" \in cols
        THEN <<Times(TryCastDouble(row["price"]), TryCastDouble(row["quantity"]))>>
        ELSE <<>>)
    \o (IF "price" \in cols THEN <<TryCastDouble(row["price"])>> ELSE <<>>)
    \o (IF "total" \in cols THEN <<TryCastDouble(row["total"])>> ELSE <<>>)

\* amt_expr: COALESCE(candidates, 0), or 0 when there is no candidate
AmtExpr(cols, row) ==
    Coalesce(AmtCandidates(cols, row) \o <<<<0>>>>)[1]

\* transactions_*.csv files arrive: `cols` is the union of their columns
\* (union_by_name), a row has a cell for each of them, NULL for the columns
\* its own file does not have
TransactionsArrive ==
    /\ txn_in = <<>>
    /\ \E cols \in SUBSET AmountColumns : \E row \in [cols -> Cells] :
          txn_in' = <<[cols |-> cols, row |-> row]>>
    /\ UNCHANGED amt_out

\* clean_transactions on that row, its keys and timestamp being present
CleanTransactionAmount ==
    /\ txn_in # <<>>
    /\ amt_out = <<>>
    /\ LET amt == AmtExpr(txn_in[1].cols, txn_in[1].row)
       IN amt_out' = <<[amt |-> amt,
                        kept |-> Valid("transactions",
                                       [transaction_id |-> 1, product_id |-> 1,
                                        amount |-> amt, timestamp |-> 1])]>>
    /\ UNCHANGED txn_in

NextAmount ==
    \/ TransactionsArrive /\ UNCHANGED <<streamVars, scdVars, starVars, cacheVars, cursorVars, pubVars, cleanVars, pipeVars, retryVars, discVars, procVars>>
    \/ CleanTransactionAmount /\ UNCHANGED <<streamVars, scdVars, starVars, cacheVars, cursorVars, pubVars, cleanVars, pipeVars, retryVars, discVars, procVars>>

SpecAmount == Init /\ [][NextAmount]_vars

(***************************************************************************)
(* The in-process pipeline: run_pipeline (pipeline.py) calling clean_all   *)
(* (cleaner.py), apply_scd_type_2 (scd_logic.py) and build_star_schema     *)
(* (star_schema.py), with the try/except of each loop and each step.       *)
(***************************************************************************)
\* the validated table a builder asks _silver_exists for
BuilderSource(t) ==
    CASE t = "dim_products" -> "products"
      [] t = "fact_inventory" -> "inventory"
      [] t = "fact_shipments" -> "shipments"
      [] OTHER -> "transactions"

\* the loop of clean_all goes on to the next cleaner, or clean_all returns
\* to run_pipeline, which goes on to step 2
NextCleaner ==
    IF p_idx < Len(CleanerList)
    THEN p_idx' = p_idx + 1 /\ p_stage' = "clean"
    ELSE p_idx' = 1 /\ p_stage' = "scd"

\* the loop of build_star_schema goes on to the next builder, or
\* build_star_schema returns to run_pipeline, which returns
NextBuilder ==
    IF p_idx < Len(BuilderList)
    THEN p_idx' = p_idx + 1 /\ p_stage' = "star"
    ELSE p_idx' = 1 /\ p_stage' = "returned"

\* run_pipeline is called; before the first call raw files of any set of
\* entities have been written
RunPipeline ==
    /\ p_stage \in {"idle", "returned"}
    /\ p_runs < MaxPipelines
    /\ IF p_runs = 0
       THEN \E present \in SUBSET Range(CleanerList) : raw_present' = present
       ELSE UNCHANGED raw_present
    /\ p_runs' = p_runs + 1
    /\ p_stage' = "clean"
    /\ p_idx' = 1
    /\ clean_results' = [e \in Range(CleanerList) |-> "unset"]
    /\ scd_result' = "unset"
    /\ build_results' = [t \in Range(BuilderList) |-> "unset"]
    /\ silver0' = silver_ver
    /\ gold0' = gold_ver
    /\ UNCHANGED <<silver_ver, gold_ver, p_raises>>

\* a cleaner finds no raw file of its entity and returns False
CleanerSkips ==
    /\ p_stage = "clean"
    /\ CleanerList[p_idx] \notin raw_present
    /\ clean_results' = [clean_results EXCEPT ![CleanerList[p_idx]] = "False"]
    /\ NextCleaner
    /\ UNCHANGED <<raw_present, silver_ver, gold_ver, scd_result, build_results,
                   silver0, gold0, p_runs, p_raises>>

\* a cleaner writes its validated table and returns True
CleanerWrites ==
    /\ p_stage = "clean"
    /\ CleanerList[p_idx] \in raw_present
    /\ silver_ver' = [silver_ver EXCEPT ![CleanerList[p_idx]] = p_runs]
    /\ clean_results' = [clean_results EXCEPT ![CleanerList[p_idx]] = "True"]
    /\ NextCleaner
    /\ UNCHANGED <<raw_present, gold_ver, scd_result, build_results,
                   silver0, gold0, p_runs, p_raises>>

\* mutant of CleanAllCatches: clean_all has no try/except, the exception
\* leaves its loop and is caught by run_pipeline, which goes on to step 2
CleanAllCatches_Propagates ==
    /\ p_idx' = 1
    /\ p_stage' = "scd"
    /\ UNCHANGED clean_results

\* the except clause of the loop of clean_all: the result is False and the
\* loop goes on
CleanAllCatches ==
    /\ clean_results' = [clean_results EXCEPT ![CleanerList[p_idx]] = "False"]
    /\ NextCleaner

\* a cleaner raises (its last retry included) while reading the raw files or
\* writing the validated table
CleanerRaises ==
    /\ p_stage = "clean"
    /\ CleanerList[p_idx] \in raw_present
    /\ p_raises < MaxRaises
    /\ p_raises' = p_raises + 1
    /\ CleanAllCatches
    /\ UNCHANGED <<raw_present, silver_ver, gold_ver, scd_result, build_results,
                   silver0, gold0, p_runs>>

\* step 2 of run_pipeline: apply_scd_type_2 reads the validated users and
\* writes dim_users
ApplyScdRuns ==
    /\ p_stage = "scd"
    /\ silver_ver["users"] # 0
    /\ gold_ver' = [gold_ver EXCEPT !["dim_users"] = p_runs]
    /\ scd_result' = "ok"
    /\ p_stage' = "star"
    /\ UNCHANGED <<raw_present, silver_ver, p_idx, clean_results, build_results,
                   silver0, gold0, p_runs, p_raises>>

\* apply_scd_type_2 raises, as it does when there is no validated users
\* table to read; run_pipeline catches the exception and goes on to step 3
ApplyScdRaises ==
    /\ p_stage = "scd"
    /\ \/ silver_ver["users"] = 0 /\ UNCHANGED p_raises
       \/ /\ silver_ver["users"] # 0
          /\ p_raises < MaxRaises
          /\ p_raises' = p_raises + 1
    /\ scd_result' = "raised"
    /\ p_stage' = "star"
    /\ UNCHANGED <<raw_present, silver_ver, gold_ver, p_idx, clean_results,
                   build_results, silver0, gold0, p_runs>>

\* a builder finds no validated table of its source and returns False
BuilderSkips ==
    /\ p_stage = "star"
    /\ silver_ver[BuilderSource(BuilderList[p_idx])] = 0
    /\ build_results' = [build_results EXCEPT ![BuilderList[p_idx]] = "False"]
    /\ NextBuilder
    /\ UNCHANGED <<raw_present, silver_ver, gold_ver, clean_results, scd_result,
                   silver0, gold0, p_runs, p_raises>>

\* a builder publishes its table and returns True
BuilderWrites ==
    /\ p_stage = "star"
    /\ silver_ver[BuilderSource(BuilderList[p_idx])] # 0
    /\ gold_ver' = [gold_ver EXCEPT ![BuilderList[p_idx]] = p_runs]
    /\ build_results' = [build_results EXCEPT ![BuilderList[p_idx]] = "True"]
    /\ NextBuilder
    /\ UNCHANGED <<raw_present, silver_ver, clean_results, scd_result,
                   silver0, gold0, p_runs, p_raises>>

\* a builder raises (its last retry included); the except clause of the
\* loop of build_star_schema makes the result False and the loop goes on
BuilderRaises ==
    /\ p_stage = "star"
    /\ silver_ver[BuilderSource(BuilderList[p_idx])] # 0
    /\ p_raises < MaxRaises
    /\ p_raises' = p_raises + 1
    /\ build_results' = [build_results EXCEPT ![BuilderList[p_idx]] = "False"]
    /\ NextBuilder
    /\ UNCHANGED <<raw_present, silver_ver, gold_ver, clean_results, scd_result,
                   silver0, gold0, p_runs>>

NextPipeline ==
    \/ RunPipeline /\ UNCHANGED <<streamVars, scdVars, starVars, cacheVars, cursorVars, pubVars, cleanVars, amtVars, retryVars, discVars, procVars>>
    \/ CleanerSkips /\ UNCHANGED <<streamVars, scdVars, starVars, cacheVars, cursorVars, pubVars, cleanVars, amtVars, retryVars, discVars, procVars>>
    \/ CleanerWrites /\ UNCHANGED <<streamVars, scdVars, starVars, cacheVars, cursorVars, pubVars, cleanVars, amtVars, retryVars, discVars, procVars>>
    \/ CleanerRaises /\ UNCHANGED <<streamVars, scdVars, starVars, cacheVars, cursorVars, pubVars, cleanVars, amtVars, retryVars, discVars, procVars>>
    \/ ApplyScdRuns /\ UNCHANGED <<streamVars, scdVars, starVars, cacheVars, cursorVars, pubVars, cleanVars, amtVars, retryVars, discVars, procVars>>
    \/ ApplyScdRaises /\ UNCHANGED <<streamVars, scdVars, starVars, cacheVars, cursorVars, pubVars, cleanVars, amtVars, retryVars, discVars, procVars>>
    \/ BuilderSkips /\ UNCHANGED <<streamVars, scdVars, starVars, cacheVars, cursorVars, pubVars, cleanVars, amtVars, retryVars, discVars, procVars>>
    \/ BuilderWrites /\ UNCHANGED <<streamVars, scdVars, starVars, cacheVars, cursorVars, pubVars, cleanVars, amtVars, retryVars, discVars, procVars>>
    \/ BuilderRaises /\ UNCHANGED <<streamVars, scdVars, starVars, cacheVars, cursorVars, pubVars, cleanVars, amtVars, retryVars, discVars, procVars>>

SpecPipeline == Init /\ [][NextPipeline]_vars

(***************************************************************************)
(* The script-level orchestrators: clean.py and Orchestrator.run           *)
(* (orchestrator.py) run cleaner.py, scd_logic.py and star_schema.py one   *)
(* after the other with subprocess.run(..., check=True).                   *)
(***************************************************************************)
\* the loop over PIPELINE_SCRIPTS starts with cleaner.py; before the first
\* run raw files of any set of entities have been written
RunScripts ==
    /\ p_stage \in {"idle", "returned", "failed"}
    /\ p_runs < MaxPipelines
    /\ IF p_runs = 0
       THEN \E present \in SUBSET Range(CleanerList) : raw_present' = present
       ELSE UNCHANGED raw_present
    /\ p_runs' = p_runs + 1
    /\ p_stage' = "clean"
    /\ p_idx' = 1
    /\ clean_results' = [e \in Range(CleanerList) |-> "unset"]
    /\ scd_result' = "unset"
    /\ build_results' = [t \in Range(BuilderList) |-> "unset"]
    /\ silver0' = silver_ver
    /\ gold0' = gold_ver
    /\ UNCHANGED <<silver_ver, gold_ver, p_raises>>

\* scd_logic.py calls apply_scd_type_2 with no try/except: the exception it
\* raises (always, when there is no validated users table) ends the process
\* with a non-zero status, run_script returns False and the loop breaks
ScdScriptFails ==
    /\ p_stage = "scd"
    /\ \/ silver_ver["users"] = 0 /\ UNCHANGED p_raises
       \/ /\ silver_ver["users"] # 0
          /\ p_raises < MaxRaises
          /\ p_raises' = p_raises + 1
    /\ scd_result' = "raised"
    /\ p_stage' = "failed"
    /\ UNCHANGED <<raw_present, silver_ver, gold_ver, p_idx, clean_results,
                   build_results, silver0, gold0, p_runs>>

NextScripts ==
    \/ RunScripts /\ UNCHANGED <<streamVars, scdVars, starVars, cacheVars, cursorVars, pubVars, cleanVars, amtVars, retryVars, discVars, procVars>>
    \/ CleanerSkips /\ UNCHANGED <<streamVars, scdVars, starVars, cacheVars, cursorVars, pubVars, cleanVars, amtVars, retryVars, discVars, procVars>>
    \/ CleanerWrites /\ UNCHANGED <<streamVars, scdVars, starVars, cacheVars, cursorVars, pubVars, cleanVars, amtVars, retryVars, discVars, procVars>>
    \/ CleanerRaises /\ UNCHANGED <<streamVars, scdVars, starVars, cacheVars, cursorVars, pubVars, cleanVars, amtVars, retryVars, discVars, procVars>>
    \/ ApplyScdRuns /\ UNCHANGED <<streamVars, scdVars, starVars, cacheVars, cursorVars, pubVars, cleanVars, amtVars, retryVars, discVars, procVars>>
    \/ ScdScriptFails /\ UNCHANGED <<streamVars, scdVars, starVars, cacheVars, cursorVars, pubVars, cleanVars, amtVars, retryVars, discVars, procVars>>
    \/ BuilderSkips /\ UNCHANGED <<streamVars, scdVars, starVars, cacheVars, cursorVars, pubVars, cleanVars, amtVars, retryVars, discVars, procVars>>
    \/ BuilderWrites /\ UNCHANGED <<streamVars, scdVars, starVars, cacheVars, cursorVars, pubVars, cleanVars, amtVars, retryVars, discVars, procVars>>
    \/ BuilderRaises /\ UNCHANGED <<streamVars, scdVars, starVars, cacheVars, cursorVars, pubVars, cleanVars, amtVars, retryVars, discVars, procVars>>

SpecScripts == Init /\ [][NextScripts]_vars

(***************************************************************************)
(* retry_with_backoff (retry_utils.py): the wrapper of a decorated         *)
(* function.  Delays are in tenths of a second.                            *)
(***************************************************************************)
\* the arguments of the decorator
RetryArgs == [max_attempts : 1..MaxAttempts, initial_delay : {10, 20},
              backoff_factor : {1, 2, 3}]

\* mutant of NextDelay: the factor is added
NextDelay_Added(d, factor) ==
    d + factor

\* delay *= backoff_factor
NextDelay(d, factor) ==
    d * factor

\* random.uniform(0, 0.1 * delay): the two ends of the interval
Jitters(d) == {0, d \div 10}

\* the decorated function is called: wrapper sets delay and enters its loop
WrapperCalled ==
    /\ r_pc = "idle"
    /\ \E a \in RetryArgs :
          /\ r_args' = a
          /\ delay' = a.initial_delay
    /\ attempt' = 1
    /\ r_pc' = "calling"
    /\ UNCHANGED <<outcomes, slept>>

\* func returns: wrapper returns its value
FuncReturns ==
    /\ r_pc = "calling"
    /\ outcomes' = Append(outcomes, "ok")
    /\ r_pc' = "returned"
    /\ UNCHANGED <<r_args, attempt, delay, slept>>

\* func raises an exception of a type in `exceptions` before the last
\* attempt: wrapper sleeps delay + jitter, multiplies delay and loops
FuncRaisesRetried ==
    /\ r_pc = "calling"
    /\ attempt # r_args.max_attempts
    /\ outcomes' = Append(outcomes, "retryable")
    /\ \E jitter \in Jitters(delay) :
          slept' = Append(slept, [base |-> delay, jitter |-> jitter])
    /\ delay' = NextDelay(delay, r_args.backoff_factor)
    /\ attempt' = attempt + 1
    /\ UNCHANGED <<r_args, r_pc>>

\* func raises an exception of a type in `exceptions` in the last attempt:
\* wrapper raises it again
FuncRaisesLast ==
    /\ r_pc = "calling"
    /\ attempt = r_args.max_attempts
    /\ outcomes' = Append(outcomes, "retryable")
    /\ r_pc' = "raised"
    /\ UNCHANGED <<r_args, attempt, delay, slept>>

\* func raises an exception of another type: no except clause of wrapper
\* matches, the exception leaves wrapper
FuncRaisesOther ==
    /\ r_pc = "calling"
    /\ outcomes' = Append(outcomes, "other")
    /\ r_pc' = "raised"
    /\ UNCHANGED <<r_args, attempt, delay, slept>>

NextRetry ==
    \/ WrapperCalled /\ UNCHANGED <<streamVars, scdVars, starVars, cacheVars, cursorVars, pubVars, cleanVars, amtVars, pipeVars, discVars, procVars>>
    \/ FuncReturns /\ UNCHANGED <<streamVars, scdVars, starVars, cacheVars, cursorVars, pubVars, cleanVars, amtVars, pipeVars, discVars, procVars>>
    \/ FuncRaisesRetried /\ UNCHANGED <<streamVars, scdVars, starVars, cacheVars, cursorVars, pubVars, cleanVars, amtVars, pipeVars, discVars, procVars>>
    \/ FuncRaisesLast /\ UNCHANGED <<streamVars, scdVars, starVars, cacheVars, cursorVars, pubVars, cleanVars, amtVars, pipeVars, discVars, procVars>>
    \/ FuncRaisesOther /\ UNCHANGED <<streamVars, scdVars, starVars, cacheVars, cursorVars, pubVars, cleanVars, amtVars, pipeVars, discVars, procVars>>

SpecRetry == Init /\ [][NextRetry]_vars

(***************************************************************************)
(* discover_tables (schema_inspector.py) on a directory of any content:    *)
(* gold_layer_path comes from the active business context.                 *)
(***************************************************************************)
\* the entries a directory can hold, as pathlib presents them; a name
\* belongs to one entry
PossibleEntries ==
    {[name |-> "sales.parquet", stem |-> "sales", suffix |-> ".parquet",
      is_dir |-> FALSE, hidden |-> FALSE],
     [name |-> "sales", stem |-> "sales", suffix |-> "",
      is_dir |-> TRUE, hidden |-> FALSE],
     [name |-> "stock.parquet", stem |-> "stock", suffix |-> ".parquet",
      is_dir |-> TRUE, hidden |-> FALSE],
     [name |-> "notes.txt", stem |-> "notes", suffix |-> ".txt",
      is_dir |-> FALSE, hidden |-> FALSE],
     [name |-> "sales.parquet.tmp", stem |-> "sales.parquet", suffix |-> ".tmp",
      is_dir |-> FALSE, hidden |-> FALSE],
     [name |-> "_old.parquet", stem |-> "_old", suffix |-> ".parquet",
      is_dir |-> FALSE, hidden |-> TRUE],
     [name |-> ".cache", stem |-> ".cache", suffix |-> "",
      is_dir |-> TRUE, hidden |-> TRUE]}

\* the directory gold_layer_path names is created with some entries
RootCreated ==
    /\ root_dir = <<>>
    /\ ~called
    /\ \E entries \in SUBSET PossibleEntries :
          /\ Cardinality(entries) <= MaxEntries
          /\ root_dir' = <<entries>>
    /\ UNCHANGED <<called, tables>>

\* discover_tables(gold_layer_path): the empty map when the path does not
\* exist, else the map its loop over iterdir() leaves
DiscoverTablesCalled ==
    /\ ~called
    /\ called' = TRUE
    /\ IF root_dir = <<>>
       THEN tables' = {}
       ELSE \E m \in DiscoverTablesMaps(root_dir[1]) : tables' = m
    /\ UNCHANGED root_dir

NextDiscover ==
    \/ RootCreated /\ UNCHANGED <<streamVars, scdVars, starVars, cacheVars, cursorVars, pubVars, cleanVars, amtVars, pipeVars, retryVars, procVars>>
    \/ DiscoverTablesCalled /\ UNCHANGED <<streamVars, scdVars, starVars, cacheVars, cursorVars, pubVars, cleanVars, amtVars, pipeVars, retryVars, procVars>>

SpecDiscover == Init /\ [][NextDiscover]_vars

(***************************************************************************)
(* The processes that run the pipeline: the API process (trigger_pipeline, *)
(* upload_dataset, process_mapped_file call run_transformation_pipeline)   *)
(* and the stream processor processes started by start_stream.             *)
(***************************************************************************)
\* POST /api/stream/start: 409 when the status is "running", else a
\* generator and a processor process are started and their pids stored
StartStream ==
    /\ stream_state.status # "running"
    /\ starts < MaxStarts
    /\ starts' = starts + 1
    /\ alive' = alive \cup {2 * starts + 1, 2 * starts + 2}
    /\ processors' = processors \cup {2 * starts + 2}
    /\ stream_state' = [status |-> "running", generator_pid |-> 2 * starts + 1,
                        processor_pid |-> 2 * starts + 2]
    /\ UNCHANGED <<active, pipelines>>

\* POST /api/stream/stop: 409 when the status is "stopped", else both
\* stored pids are killed; a killed processor leaves its pipeline run
StopStream ==
    /\ stream_state.status # "stopped"
    /\ alive' = alive \ {stream_state.generator_pid, stream_state.processor_pid}
    /\ active' = active \ {stream_state.processor_pid}
    /\ stream_state' = [status |-> "stopped", generator_pid |-> NoPid,
                        processor_pid |-> NoPid]
    /\ UNCHANGED <<processors, starts, pipelines>>

\* a stream process ends by itself (an exception leaves its loop); a
\* processor that ends leaves its pipeline run
ProcessEnds ==
    /\ \E pid \in alive :
          /\ alive' = alive \ {pid}
          /\ active' = active \ {pid}
    /\ UNCHANGED <<stream_state, processors, starts, pipelines>>

\* GET /api/stream/status: while the status is "running" the stored pids
\* are probed, generator first; at the first one that is gone the status
\* becomes "stopped" and both pids are forgotten, the other process is not
\* killed
GetStreamStatus ==
    /\ stream_state.status = "running"
    /\ \/ stream_state.generator_pid \notin alive
       \/ stream_state.processor_pid \notin alive
    /\ stream_state' = [status |-> "stopped", generator_pid |-> NoPid,
                        processor_pid |-> NoPid]
    /\ UNCHANGED <<alive, processors, starts, active, pipelines>>

\* process_micro_batch of a live processor calls
\* trigger_incremental_pipeline
ProcessorPipelineStarts ==
    /\ pipelines < MaxPipelines
    /\ pipelines' = pipelines + 1
    /\ \E pid \in (alive \cap processors) \ active : active' = active \cup {pid}
    /\ UNCHANGED <<stream_state, alive, processors, starts>>

\* trigger_incremental_pipeline returns
ProcessorPipelineEnds ==
    /\ \E pid \in active \cap processors : active' = active \ {pid}
    /\ UNCHANGED <<stream_state, alive, processors, starts, pipelines>>

\* trigger_pipeline, upload_dataset or process_mapped_file calls
\* run_transformation_pipeline; the handler is a coroutine that blocks the
\* event loop in subprocess.run, so no second handler starts one meanwhile
ApiPipelineStarts ==
    /\ ApiPid \notin active
    /\ pipelines < MaxPipelines
    /\ pipelines' = pipelines + 1
    /\ active' = active \cup {ApiPid}
    /\ UNCHANGED <<stream_state, alive, processors, starts>>

\* subprocess.run returns (or times out)
ApiPipelineEnds ==
    /\ ApiPid \in active
    /\ active' = active \ {ApiPid}
    /\ UNCHANGED <<stream_state, alive, processors, starts, pipelines>>

NextProcesses ==
    \/ StartStream /\ UNCHANGED <<streamVars, scdVars, starVars, cacheVars, cursorVars, pubVars, cleanVars, amtVars, pipeVars, retryVars, discVars>>
    \/ StopStream /\ UNCHANGED <<streamVars, scdVars, starVars, cacheVars, cursorVars, pubVars, cleanVars, amtVars, pipeVars, retryVars, discVars>>
    \/ ProcessEnds /\ UNCHANGED <<streamVars, scdVars, starVars, cacheVars, cursorVars, pubVars, cleanVars, amtVars, pipeVars, retryVars, discVars>>
    \/ GetStreamStatus /\ UNCHANGED <<streamVars, scdVars, starVars, cacheVars, cursorVars, pubVars, cleanVars, amtVars, pipeVars, retryVars, discVars>>
    \/ ProcessorPipelineStarts /\ UNCHANGED <<streamVars, scdVars, starVars, cacheVars, cursorVars, pubVars, cleanVars, amtVars, pipeVars, retryVars, discVars>>
    \/ ProcessorPipelineEnds /\ UNCHANGED <<streamVars, scdVars, starVars, cacheVars, cursorVars, pubVars, cleanVars, amtVars, pipeVars, retryVars, discVars>>
    \/ ApiPipelineStarts /\ UNCHANGED <<streamVars, scdVars, starVars, cacheVars, cursorVars, pubVars, cleanVars, amtVars, pipeVars, retryVars, discVars>>
    \/ ApiPipelineEnds /\ UNCHANGED <<streamVars, scdVars, starVars, cacheVars, cursorVars, pubVars, cleanVars, amtVars, pipeVars, retryVars, discVars>>

SpecProcesses == Init /\ [][NextProcesses]_vars

(***************************************************************************)
(* Claims about the micro-batch consumer.                                  *)
(***************************************************************************)
\* the highest log offset among the events the batch read: the lines after
\* last_processed, in order
BatchHigh == last_processed + Len(events)

\* every artifact of the batch in `events` is in the raw directory
BatchArtifactsWritten ==
    \A k \in 1..Len(WriteOrder) :
        WritesArtifact(events, WriteOrder[k])
            => Artifact(events, WriteOrder[k], now) \in rawFiles

\* an event whose rows write_events_to_csv routes to a raw artifact
HasRows(e) == RowsOfEvent(e) # <<>>

\* some raw artifact of the event's entity contains the rows of the event
InRawLayer(e) ==
    \E f \in rawFiles :
        /\ f.entity = EntityOf(e.event_type)
        /\ \A j \in 1..Len(RowsOfEvent(e)) :
              \E i \in 1..Len(f.rows) : f.rows[i] = RowsOfEvent(e)[j]

\* C1: after a successful process_micro_batch the stored cursor equals the
\* highest offset among the events the batch read and wrote, not the length
\* of the log when the cursor is written.
C1_CursorIsBatchHigh ==
    pc = "pipeline" => marker = <<Str(BatchHigh)>>

\* C1: a batch has written its cursor after a producer appended a line between
\* the batch's read and its cursor write.
C1_Witness ==
    pc = "pipeline" /\ Len(log) > BatchHigh

\* C2: no event is skipped: every event with rows at an offset less than or
\* equal to the stored cursor has its rows in some raw artifact.
C2_NoEventSkipped ==
    \A i \in 1..Len(log) :
        (i <= GetLastProcessedLine /\ HasRows(log[i])) => InRawLayer(log[i])

\* C3: the cursor changes only in the step after all raw artifacts of the
\* batch were written, and after a raw-layer write raised the cursor holds
\* the value read before the attempt, so the next attempt reads the same
\* events again.
C3_CursorAfterRawWrite ==
    /\ [][marker' # marker => (pc = "mark" /\ BatchArtifactsWritten)]_vars
    /\ [](pc = "crashed" =>
            /\ GetLastProcessedLine = last_processed
            /\ SubSeq(EventsAfter(GetLastProcessedLine), 1, Len(events)) = events)

\* C3: a raw-layer write raised after an earlier artifact of the same batch
\* had been written.
C3_Witness ==
    /\ pc = "crashed"
    /\ events # <<>>
    /\ \E f \in rawFiles : f.ts = now /\ f.rows # <<>>

\* C25: a raise inside one micro-batch cycle (raw-layer write, log read,
\* cursor write) ends that cycle only: the processor process is never ended
\* by it and goes on with its loop.
C25_ProcessorKeepsRunning ==
    pc # "crashed"

(***************************************************************************)
(* Claims about the SCD Type 2 merge.                                      *)
(***************************************************************************)
DimRows == IF dim_users = NoTable THEN {} ELSE dim_users[1]

\* C4: after every apply_scd_type_2 run each user_id has at most one current
\* row in dim_users, and end_date is NULL exactly for the current rows.
C4_OneCurrentVersion ==
    /\ \A r1, r2 \in DimRows :
          (r1.user_id = r2.user_id /\ r1.is_current /\ r2.is_current) => r1 = r2
    /\ \A r \in DimRows : (r.end_date = NullDate) <=> r.is_current

\* C4: a merge has closed the version of a user whose city changed and added
\* the new current version.
C4_Witness ==
    \E r1, r2 \in DimRows :
        /\ r1.user_id = r2.user_id
        /\ ~r1.is_current /\ r1.end_date # NullDate
        /\ r2.is_current /\ r2.city # r1.city

\* C5: every surrogate key given to a new version is greater than every
\* surrogate key assigned in an earlier run (so no key is assigned twice).
C5_MonotonicSurrogateKeys ==
    \A k \in sk_fresh : \A j \in sk_issued : k > j

\* C6: every version in dim_users before a merge is in dim_users after it,
\* unmodified or (the current version of a changed user) closed.
C6_HistoryPreserved ==
    [][(dim_users # NoTable /\ dim_users' # dim_users) =>
          \A r \in dim_users[1] :
              \/ r \in dim_users'[1]
              \/ r.is_current /\ CloseVersion(r, today) \in dim_users'[1]]_vars

\* a step of apply_scd_type_2 on an existing dim_users
IsMergeStep == dim_users # NoTable /\ merges' = merges + 1

\* the rows of user u in a table
VersionsOf(rows, u) == {r \in rows : r.user_id = u}

\* C13: when the incoming users hold a user whose city differs from the city
\* of the user's current version, the merge closes that version
\* (is_current = FALSE, end_date = batch date, the rest unchanged) and adds
\* exactly one new current version with the new city, a surrogate key no row
\* had before and effective_date = batch date.
C13_CityChangeAddsVersion ==
    [][IsMergeStep =>
         \A e \in dim_users[1] : \A i \in silver_users[1] :
            (e.is_current /\ i.user_id = e.user_id /\ i.city # e.city) =>
               LET after == VersionsOf(dim_users'[1], e.user_id)
                   before == VersionsOf(dim_users[1], e.user_id)
                   closed == [surrogate_key |-> e.surrogate_key,
                              user_id |-> e.user_id, name |-> e.name,
                              city |-> e.city,
                              effective_date |-> e.effective_date,
                              end_date |-> today, is_current |-> FALSE]
                   added == after \ ((before \ {e}) \cup {closed})
               IN /\ closed \in after
                  /\ e \notin after
                  /\ (before \ {e}) \subseteq after
                  /\ Cardinality(added) = 1
                  /\ \A n \in added :
                        /\ n.is_current
                        /\ n.city = i.city
                        /\ n.effective_date = today
                        /\ n.end_date = NullDate
                        /\ \A x \in dim_users[1] :
                              x.surrogate_key < n.surrogate_key]_vars

\* C13: user 1, changed once from Austin to Dallas, has exactly two rows: the
\* Austin row closed and the Dallas row current, stamped with today's date.
C13_Witness ==
    /\ Cardinality(VersionsOf(DimRows, 1)) = 2
    /\ \E a, d \in VersionsOf(DimRows, 1) :
          /\ a.city = "Austin" /\ ~a.is_current /\ a.end_date = today
          /\ d.city = "Dallas" /\ d.is_current /\ d.effective_date = today

\* C14: the merge leaves unmodified every already-closed row and every
\* current row whose city equals the incoming city of the same user_id,
\* whatever the incoming name.
C14_UnchangedRowsKept ==
    [][IsMergeStep =>
         \A e \in dim_users[1] :
            (\/ ~e.is_current
             \/ \E i \in silver_users[1] : i.user_id = e.user_id /\ i.city = e.city)
            => e \in dim_users'[1]]_vars

\* C14: after the last merge user 1 has a closed row, and a current row whose
\* city is the incoming city while its name is not the incoming name.
C14_Witness ==
    /\ merges = MaxMerges
    /\ \E c, e \in VersionsOf(DimRows, 1) : \E i \in silver_users[1] :
          /\ ~c.is_current
          /\ e.is_current
          /\ e.surrogate_key \in sk_issued
          /\ i.user_id = 1 /\ i.city = e.city /\ i.name # e.name

\* C15: for every user_id the versions have non-overlapping validity
\* intervals: a closed version has effective_date <= end_date, a closed
\* version ends before or when any later version starts, and the current
\* version is the last one.
C15_IntervalsDoNotOverlap ==
    /\ \A r \in DimRows :
          ~r.is_current =>
              r.effective_date # NullDate /\ r.effective_date <= r.end_date
    /\ \A r1, r2 \in DimRows :
          (r1.user_id = r2.user_id /\ r1 # r2 /\ ~r1.is_current) =>
              \/ r2.effective_date # NullDate /\ r1.end_date <= r2.effective_date
              \/ ~r2.is_current /\ r2.end_date <= r1.effective_date

\* C29: after a run of apply_scd_type_2, a second run with the same
\* incoming users and the same batch date writes the table the first run
\* wrote: no version is closed, added or given another surrogate key.
C29_MergeIdempotent ==
    [][merges' = merges + 1 =>
         Merge(dim_users'[1], silver_users[1], today) = dim_users'[1]]_vars

\* C29: a merge that closed a version of user 1 and added one was followed
\* by a run that gave out no surrogate key; the table holds both versions
\* and equals its own merge with the incoming users.
C29_Witness ==
    /\ merges >= 2
    /\ silver_users # NoTable
    /\ sk_fresh = {}
    /\ \E c, e \in VersionsOf(DimRows, 1) :
          /\ ~c.is_current /\ c.end_date = today
          /\ e.is_current /\ e.effective_date = today
          /\ \E i \in silver_users[1] : i.user_id = 1 /\ i.city = e.city
    /\ Merge(DimRows, silver_users[1], today) = DimRows

(***************************************************************************)
(* Claims about the star schema builder.                                   *)
(***************************************************************************)
\* the key a fact row must carry for one dimension: the sentinel when the
\* dimension is unpublished or has no row for the business key, else the key
\* of a dimension row with that business key
UserKeyOk(r) ==
    LET m == {d \in Rows(dim_users) : d.user_id = r.src.user_id /\ d.is_current}
    IN IF dim_users = NoTable \/ m = {} THEN r.user_key = Sentinel
       ELSE \E d \in m : r.user_key = d.surrogate_key

ProductKeyOk(r) ==
    LET m == {d \in Rows(dim_products) : d.product_id = r.src.product_id}
    IN IF dim_products = NoTable \/ m = {} THEN r.product_key = Sentinel
       ELSE \E d \in m : r.product_key = d.product_key

StoreKeyOk(r) ==
    LET m == {d \in Rows(dim_stores) :
                r.src.store_id # NullId /\ d.store_id = r.src.store_id}
    IN IF dim_stores = NoTable \/ m = {} THEN r.store_key = Sentinel
       ELSE \E d \in m : r.store_key = d.store_key

\* table F holds exactly one row per validated transaction row, with the
\* three keys as above
FactTableOk(F) ==
    /\ \A t \in Rows(silver_txn) : Cardinality({r \in F : r.src = t}) = 1
    /\ \A r \in F :
          /\ r.src \in Rows(silver_txn)
          /\ UserKeyOk(r) /\ ProductKeyOk(r) /\ StoreKeyOk(r)

\* C7: the table build_fact_transactions produces (the temp table, then the
\* .tmp file it publishes) has exactly one row per validated transaction
\* row, and each key is -1 when its dimension is unpublished or has no
\* matching (current) row, and the dimension's surrogate key otherwise.
C7_TotalFactJoin ==
    /\ stage = "fact_copy" => FactTableOk(Rows(fact_temp))
    /\ stage \in {"fact_remove", "fact_rename"} => FactTableOk(Rows(tmp_file))

\* C7: a fact table was built with a sentinel product key although
\* dim_products is published, and with a real user key for a user who has a
\* closed version in dim_users.
C7_Witness ==
    /\ stage = "fact_copy"
    /\ dim_products # NoTable
    /\ \E r1, r2 \in Rows(fact_temp) :
          /\ r1.product_key = Sentinel
          /\ r2.user_key # Sentinel
          /\ \E d \in Rows(dim_products) : d.product_key = r2.product_key
          /\ \E d \in Rows(dim_users) : d.user_id = r2.src.user_id /\ ~d.is_current

\* C8: the published fact_transactions.parquet, once there, is there at
\* every later step (the old file goes away only by the rename replacing it).
C8_PublishedFactStaysComplete ==
    [][fact_txn # NoTable => fact_txn' # NoTable]_vars

\* C9: every non-sentinel key of the published fact_transactions identifies,
\* in the dimension published at the same instant, the row of the business
\* key the transaction references.
C9_PublishedKeysConsistent ==
    \A r \in Rows(fact_txn) :
        /\ r.product_key # Sentinel =>
              \E d \in Rows(dim_products) :
                  d.product_key = r.product_key /\ d.product_id = r.src.product_id
        /\ r.store_key # Sentinel =>
              \E d \in Rows(dim_stores) :
                  d.store_key = r.store_key /\ d.store_id = r.src.store_id
        /\ r.user_key # Sentinel =>
              \E d \in Rows(dim_users) :
                  d.surrogate_key = r.user_key /\ d.user_id = r.src.user_id

\* C10: a _get_table_paths call in the API process that starts after a
\* pipeline run has completed, with no run active, returns the table map of
\* data/gold as it is
C10_NextCallSeesPublishedLayer ==
    [][(runner = "none" /\ runs > 0 /\ q_result = NoResult /\ q_result' # NoResult)
          => q_result' = <<DiscoverTables(GoldDir)>>]_vars

\* a request is answered from the cache after a run has published its tables
C10_Witness ==
    /\ runner = "none"
    /\ runs > 0
    /\ fact_txn # NoTable
    /\ q_result # NoResult

(***************************************************************************)
(* Claims about the writers of the cursor marker.                          *)
(***************************************************************************)
\* C11: the cursor value stored in last_processed.txt never decreases: every
\* step that writes the file (the cursor update of a micro-batch, the data
\* reset) leaves a value greater than or equal to the one before.
C11_CursorNeverDecreases ==
    [][GetLastProcessedLine' >= GetLastProcessedLine]_vars

\* C12: the marker file is overwritten atomically: every step leaves in the
\* file the integer it held or the integer being written.
C12_MarkerOverwrittenAtomically ==
    [][marker' \in {marker, <<Str(total_lines')>>}]_vars

\* C30: whenever the marker file holds a number, that number is at most the
\* number of lines of the event log, whatever the interleaving of the
\* micro-batch steps, the appends and the data reset.
C30_CursorWithinLog ==
    ~MarkerUnreadable => GetLastProcessedLine <= Len(log)

(***************************************************************************)
(* Claims about the publish steps of the builders.                         *)
(***************************************************************************)
\* C16: build_fact_inventory and build_fact_shipments, run with silver data
\* while dim_products or dim_stores is unpublished, still produce their fact
\* table, with -1 in every key column of the unpublished dimension.
C16_FactBuiltWithoutDims ==
    [][(/\ building \in DirTables
        /\ building' = AfterBuilder(building)
        /\ silver_dir[building] # NoTable
        /\ ~(DimsRead(building) \subseteq Published))
       => /\ fact_dir'[building] # NoTable
          /\ building \notin half_written'
          /\ \A r \in Rows(fact_dir'[building]) :
                IF building = "fact_inventory"
                THEN /\ dim_products = NoTable => r.product_key = Sentinel
                     /\ dim_stores = NoTable => r.store_key = Sentinel
                ELSE r.origin_store_key = Sentinel /\ r.dest_store_key = Sentinel]_vars

\* C17: a reader interleaved with the builder never observes a published
\* table other than fact_transactions partially written, nor missing once
\* it has been published.
C17_TablesSwappedIn ==
    /\ [](half_written = {})
    /\ [][\A t \in Published \ {"fact_transactions"} : t \in Published']_vars

\* C18: when no run is active (the last one has ended, failed or been
\* killed) no published table is partially written, every table that was
\* published when the run started is published, and discover_tables returns
\* tables only, no leftover temporary file.
C18_FailureLeavesCompleteTables ==
    building = "none" =>
        /\ half_written = {}
        /\ at_start \subseteq Published
        /\ \A e \in DiscoverTables(GoldDir) : e.table \in FileTables \cup DirTables

(***************************************************************************)
(* Claims about the cleaners.                                              *)
(***************************************************************************)
\* C19: two runs of a cleaner on the same raw rows write the same validated
\* table, also when several raw rows share a dedup key and differ in their
\* attributes.
C19_CleanerIdempotent ==
    \A j, k \in 1..Len(cleaned) : cleaned[j] = cleaned[k]

\* the key columns of a validated row are non-null
KeyNonNull(entity, r) == \A i \in 1..Len(DedupKey(entity, r)) :
                            DedupKey(entity, r)[i] # NullId

\* C20: every validated transaction has a non-null transaction_id and
\* product_id and amount > 0, no two share (transaction_id, product_id);
\* validated users, products and shipments have a non-null key, unique in
\* the table; the cleaner writes a table whatever the raw rows, with one row
\* for every key of the raw rows that pass, the others dropped.
C20_ValidatedRowsValid ==
    /\ raw_in.entity # "none" => CleanedTables(raw_in.entity, raw_in.rows) # {}
    /\ \A k \in 1..Len(cleaned) :
          {DedupKey(raw_in.entity, r) : r \in cleaned[k]}
              = {DedupKey(raw_in.entity, r) :
                    r \in {x \in raw_in.rows : Valid(raw_in.entity, x)}}
    /\ \A k \in 1..Len(cleaned) :
        /\ \A r \in cleaned[k] :
              /\ KeyNonNull(raw_in.entity, r)
              /\ raw_in.entity = "transactions" => r.amount > 0
        /\ \A r, q \in cleaned[k] :
              DedupKey(raw_in.entity, r) = DedupKey(raw_in.entity, q) => r = q

\* C20: a cleaner has run on raw transactions with a row to drop (null key
\* or amount not positive) beside a valid row, and wrote the valid one.
C20_Witness ==
    /\ raw_in.entity = "transactions"
    /\ \E r \in raw_in.rows : r.transaction_id = NullId \/ r.amount <= 0
    /\ Len(cleaned) >= 1
    /\ cleaned[1] # {}

\* the valid raw rows with the key of the validated row r
SameKeyRows(entity, r) ==
    {x \in raw_in.rows : Valid(entity, x) /\ DedupKey(entity, x) = DedupKey(entity, r)}

\* x is a most recently observed row among rows: none is in a file written
\* later, none in the same file has a later signup_date
MostRecent(x, rows) ==
    \A q \in rows :
        /\ q.filename.ts <= x.filename.ts
        /\ q.filename = x.filename => q.signup_date <= x.signup_date

\* C21: the validated row of a user is the projection of a most recently
\* observed raw row of that user_id: one of the file written last, stream
\* file or uploaded file, with the latest signup_date inside that file.
C21_LatestObservedKept ==
    raw_in.entity = "users" =>
        \A k \in 1..Len(cleaned) : \A r \in cleaned[k] :
            \E x \in SameKeyRows("users", r) :
                /\ Projected("users", x) = r
                /\ MostRecent(x, SameKeyRows("users", r))

\* the column c is present and the row has a number in it
HasNumber(c) ==
    /\ c \in txn_in[1].cols
    /\ txn_in[1].row[c].kind = "num"

\* the number of the row in column c
NumberIn(c) == txn_in[1].row[c].v

\* C22: the validated amount is the amount cell when it holds a number,
\* else price * quantity when both hold numbers, else price, else total,
\* looking only at the columns present; a row with none of these gets 0 and
\* is dropped.
C22_AmountCoalesced ==
    (txn_in # <<>> /\ amt_out # <<>>) =>
        LET a == amt_out[1].amt IN
        /\ HasNumber("amount") => a = NumberIn("amount")
        /\ (~HasNumber("amount") /\ HasNumber("price") /\ HasNumber("quantity"))
              => a = NumberIn("price") * NumberIn("quantity")
        /\ (~HasNumber("amount") /\ HasNumber("price") /\ ~HasNumber("quantity"))
              => a = NumberIn("price")
        /\ (~HasNumber("amount") /\ ~HasNumber("price") /\ HasNumber("total"))
              => a = NumberIn("total")
        /\ (~HasNumber("amount") /\ ~HasNumber("price") /\ ~HasNumber("total"))
              => (a = 0 /\ ~amt_out[1].kept)
        /\ amt_out[1].kept <=> a > 0

\* C22: among files with an amount column and files with price and
\* quantity, a row of the latter kind (amount NULL) was cleaned and kept with
\* amount price * quantity, different from its price.
C22_Witness ==
    /\ txn_in # <<>> /\ amt_out # <<>>
    /\ {"amount", "price", "quantity"} \subseteq txn_in[1].cols
    /\ txn_in[1].row["amount"].kind = "null"
    /\ HasNumber("price") /\ HasNumber("quantity")
    /\ NumberIn("quantity") > 1
    /\ amt_out[1].kept
    /\ amt_out[1].amt = NumberIn("price") * NumberIn("quantity")

(***************************************************************************)
(* Claims about the in-process pipeline run.                               *)
(***************************************************************************)
\* C23: when run_pipeline has returned, every cleaner and every builder has
\* been called and has a result and the SCD step has run, whatever raised
\* on the way; a cleaner without raw files and a builder without its
\* validated source have result False and their table is the one of before
\* the run; during the run the loops never leave their lists.
C23_FailuresIsolated ==
    /\ p_stage = "clean" => p_idx \in 1..Len(CleanerList)
    /\ p_stage = "star" => p_idx \in 1..Len(BuilderList)
    /\ p_stage \in {"scd", "star", "returned"} =>
          \A e \in Range(CleanerList) :
              /\ clean_results[e] # "unset"
              /\ e \notin raw_present =>
                    (clean_results[e] = "False" /\ silver_ver[e] = silver0[e])
    /\ p_stage \in {"star", "returned"} => scd_result # "unset"
    /\ p_stage = "returned" =>
          \A t \in Range(BuilderList) :
              /\ build_results[t] # "unset"
              /\ silver_ver[BuilderSource(t)] = 0 =>
                    (build_results[t] = "False" /\ gold_ver[t] = gold0[t])

\* C23: run_pipeline has returned from a run in which a cleaner raised, a
\* later cleaner wrote its table, the SCD step raised for want of validated
\* users, and a builder still published its table while another skipped.
C23_Witness ==
    /\ p_stage = "returned"
    /\ p_raises > 0
    /\ "transactions" \in raw_present /\ clean_results["transactions"] = "False"
    /\ clean_results["products"] = "True"
    /\ scd_result = "raised"
    /\ build_results["dim_products"] = "True"
    /\ build_results["fact_inventory"] = "False"

\* C24: when the loop over the pipeline scripts has ended, star_schema.py
\* has run for the entities that have data: every builder whose validated
\* source exists has been called and has a result, also when scd_logic.py
\* failed for want of user data.
C24_ScriptStagesIndependent ==
    p_stage \in {"returned", "failed"} =>
        \A t \in Range(BuilderList) :
            silver_ver[BuilderSource(t)] # 0 => build_results[t] # "unset"

(***************************************************************************)
(* Claims about retry_with_backoff.                                        *)
(***************************************************************************)
\* b to the power e
RECURSIVE Pow(_, _)
Pow(b, e) == IF e = 0 THEN 1 ELSE b * Pow(b, e - 1)

\* C26: the wrapped function is called at most max_attempts times; every
\* call but the last raised a retryable exception; after a return or a raise
\* of wrapper no call follows; wrapper returns exactly when the last call
\* returned, raises a retryable exception only from call number
\* max_attempts, raises another exception from the call in which it first
\* occurred; the base delay of the k-th sleep is
\* initial_delay * backoff_factor^(k-1), one sleep per retried call.
C26_RetryContract ==
    /\ [](Len(outcomes) <= r_args.max_attempts)
    /\ [](\A k \in 1..(Len(outcomes) - 1) : outcomes[k] = "retryable")
    /\ [](r_pc = "calling" => (Len(outcomes) = attempt - 1 /\ Len(slept) = attempt - 1))
    /\ [](r_pc = "returned" => outcomes[Len(outcomes)] = "ok")
    /\ [](r_pc = "raised" =>
            \/ outcomes[Len(outcomes)] = "other"
            \/ /\ outcomes[Len(outcomes)] = "retryable"
               /\ Len(outcomes) = r_args.max_attempts)
    /\ [](\A k \in 1..Len(slept) :
            slept[k].base = r_args.initial_delay * Pow(r_args.backoff_factor, k - 1))
    /\ [][(r_pc = "returned" \/ r_pc = "raised") => (outcomes' = outcomes)]_vars

\* C26: with max_attempts 3 and backoff_factor 2 the function raised a
\* retryable exception three times; wrapper slept twice and raised.
C26_Witness ==
    /\ r_pc = "raised"
    /\ r_args.max_attempts = 3 /\ r_args.backoff_factor = 2
    /\ outcomes = <<"retryable", "retryable", "retryable">>
    /\ Len(slept) = 2

(***************************************************************************)
(* Claims about discover_tables.                                           *)
(***************************************************************************)
\* C27: the map discover_tables returns has an entry for every directory
\* and every .parquet file of the root whose name is not hidden, keyed by
\* the stem, with a read_parquet locator for a directory and the quoted
\* path for a file, and no other entry; it is empty for a missing root.
C27_OneEntryPerTable ==
    called =>
        IF root_dir = <<>> THEN tables = {}
        ELSE /\ \A e \in root_dir[1] :
                  (~e.hidden /\ (e.is_dir \/ e.suffix = ".parquet")) =>
                      \E a \in tables :
                          /\ a.table = e.stem
                          /\ a.locator = IF e.is_dir
                                         THEN <<"read_parquet", e.name>>
                                         ELSE <<"file", e.name>>
             /\ \A a \in tables :
                  \E e \in root_dir[1] :
                      /\ ~e.hidden /\ (e.is_dir \/ e.suffix = ".parquet")
                      /\ a.table = e.stem

(***************************************************************************)
(* Claims about the processes that run the pipeline.                       *)
(***************************************************************************)
\* C28: at most one pipeline run is active at any time, whoever started it:
\* a stream processor, a second stream processor, or a handler of the API.
C28_SinglePipelineRun ==
    \A a, b \in active : a = b

====
